---- MODULE Spec2Model ----
(***************************************************************************)
(* Model of the BadWolf BQL result table (package table) as a state        *)
(* machine over a small Go heap: binding slices with their backing arrays, *)
(* the binding presence maps, and the rows of every table.                 *)
(***************************************************************************)
EXTENDS Integers, Sequences, FiniteSets, TLC

\* ------------------------------------------------------------------ bounds
\* Longest binding list handed to New / AddBindings.
MaxBs == 2
\* Most rows a table holds: AddRow, AppendTable and DotProduct are taken only
\* when the table they write holds at most this many rows afterwards.
MaxRows == 2

\* ---------------------------------------------------------------- universe
Names == {"?a", "?b", "?c"}
\* The table variables of the caller, in a fixed order.
TableSeq == <<"t1", "t2">>
Tables == {TableSeq[i] : i \in 1..Len(TableSeq)}
Nil == "nil"
NewRef == "new"
\* Heap addresses of backing arrays and of maps.
Refs == Tables \cup {NewRef}

Max(a, b) == IF a >= b THEN a ELSE b

\* All sequences over S of length at most n.
SeqsUpTo(S, n) == UNION {[1..k -> S] : k \in 0..n}

Range(s) == {s[i] : i \in 1..Len(s)}

\* ------------------------------------------------------------------- cells
\* An optional pointer field is <<>> (nil) or <<v>>.
None == <<>>
Some(v) == <<v>>

Cell(s, n, p, l, t) == [S |-> s, N |-> n, P |-> p, L |-> l, T |-> t]
EmptyCell == Cell("", None, None, None, None)
CellS(s) == Cell(s, None, None, None, None)

\* Node.String(): `/t<id>` (package node).
NodeString(n) == <<n.type, "<", n.id, ">">>

\* time.Time.Format(time.RFC3339Nano) of an instant, one token per instant.
TimeFormat(t) == <<"T", ToString(t)>>

\* Predicate.String()
PredicateString(p) ==
    IF p.anchor = None
    THEN <<"\"", p.id, "\"@[", "]">>
    ELSE <<"\"", p.id, "\"@[">> \o TimeFormat(p.anchor[1]) \o <<"]">>

\* Literal.String(): `"value"^^type:<name>` (package literal).
LiteralString(l) == <<"\"", l.value, "\"^^type:", l.type>>

\* Cell.String(): text is a sequence of tokens.
CellString(c) ==
    IF c.S # "" THEN <<c.S>>
    ELSE IF c.N # None THEN NodeString(c.N[1])
    ELSE IF c.P # None THEN PredicateString(c.P[1])
    ELSE IF c.L # None THEN LiteralString(c.L[1])
    ELSE IF c.T # None THEN TimeFormat(c.T[1])
    ELSE <<"<NULL>">>

\* -------------------------------------------------------------------- heap
\* A world is the heap reachable from the table variables:
\*   tbl[t]  = [bs |-> slice, mbs |-> map address, data |-> rows]
\*   arrs[r] = [cap |-> capacity, elems |-> the written prefix of the array]
\*   maps[r] = the key set of a map[string]bool (every stored value is true)
NilSlice == [arr |-> Nil, len |-> 0]
NoArray == [cap |-> 0, elems |-> <<>>]

SliceCap(w, s) == IF s.arr = Nil THEN 0 ELSE w.arrs[s.arr].cap
SliceElems(w, s) == IF s.arr = Nil THEN <<>> ELSE SubSeq(w.arrs[s.arr].elems, 1, s.len)

\* The first table variable, in TableSeq order, that holds the same address as t.
CanonOf(f, t) ==
    TableSeq[CHOOSE i \in 1..Len(TableSeq) :
                /\ f[TableSeq[i]] = f[t]
                /\ \A j \in 1..(i - 1) : f[TableSeq[j]] # f[t]]

\* Garbage collection and renaming of addresses: an object is named after the
\* first table variable that points to it, unreachable objects are dropped and
\* array cells beyond every slice's length, which no slice can read, are cut.
Norm(w) ==
    LET mref == [t \in Tables |-> w.tbl[t].mbs]
        aref == [t \in Tables |-> w.tbl[t].bs.arr]
        longest(r) == LET ls == {w.tbl[t].bs.len : t \in {u \in Tables : aref[u] = r}}
                      IN CHOOSE n \in ls : \A m \in ls : m <= n
    IN [tbl  |-> [t \in Tables |->
                    [bs   |-> [arr |-> IF aref[t] = Nil THEN Nil ELSE CanonOf(aref, t),
                               len |-> w.tbl[t].bs.len],
                     mbs  |-> CanonOf(mref, t),
                     data |-> w.tbl[t].data]],
        arrs |-> [r \in Refs |->
                    IF r \in Tables /\ aref[r] # Nil /\ CanonOf(aref, r) = r
                    THEN [cap   |-> w.arrs[aref[r]].cap,
                          elems |-> SubSeq(w.arrs[aref[r]].elems, 1, longest(aref[r]))]
                    ELSE NoArray],
        maps |-> [r \in Refs |->
                    IF r \in Tables /\ CanonOf(mref, r) = r
                    THEN w.maps[mref[r]]
                    ELSE {}]]

\* ------------------------------------------------------------ table queries
\* Table.Bindings()
Bindings(w, t) == SliceElems(w, w.tbl[t].bs)

\* Table.HasBinding(b)
HasBinding(w, t, b) == b \in w.maps[w.tbl[t].mbs]

\* Table.NumRows()
NumRows(w, t) == Len(w.tbl[t].data)

\* Table.Rows()
Rows(w, t) == w.tbl[t].data

\* Table.Row(i): the row returned (None: nil), the boolean, whether the index
\* expression t.data[i] panics, and the world afterwards.
Row(w, t, i) ==
    LET d == w.tbl[t].data
    IN IF i >= Len(d) THEN [row |-> None, ok |-> FALSE, panic |-> FALSE, w |-> w]
       ELSE IF i < 0 THEN [row |-> None, ok |-> FALSE, panic |-> TRUE, w |-> w]
       ELSE [row |-> Some(d[i + 1]), ok |-> TRUE, panic |-> FALSE, w |-> w]

\* --------------------------------------------------------------- operations
\* Every operation yields [w |-> the world after the call, err |-> error returned].

\* New without the check for repeated names.
New_AcceptsDuplicates(w, t, bs) ==
    [w |-> Norm([w EXCEPT
                   !.arrs[NewRef] = [cap |-> Len(bs), elems |-> bs],
                   !.maps[NewRef] = Range(bs),
                   !.tbl[t] = [bs   |-> IF Len(bs) = 0 THEN NilSlice
                                        ELSE [arr |-> NewRef, len |-> Len(bs)],
                               mbs  |-> NewRef,
                               data |-> <<>>]]),
     err |-> FALSE]

\* t, err := New(bs): the table keeps the caller's slice bs (a slice whose
\* capacity is its length, as a slice literal is) and a fresh map; on error the
\* variable t keeps the table it held.
New(w, t, bs) ==
    LET m == Range(bs)
    IN IF Cardinality(m) # Len(bs)
       THEN [w |-> w, err |-> TRUE]
       ELSE [w |-> Norm([w EXCEPT
                           !.arrs[NewRef] = [cap |-> Len(bs), elems |-> bs],
                           !.maps[NewRef] = m,
                           !.tbl[t] = [bs   |-> IF Len(bs) = 0 THEN NilSlice
                                                ELSE [arr |-> NewRef, len |-> Len(bs)],
                                       mbs  |-> NewRef,
                                       data |-> <<>>]]),
             err |-> FALSE]

\* The capacity append gives the array it allocates for one more element of a
\* full slice of capacity c (runtime growslice on short slices: doubling).
GrowCap(c) == IF c = 0 THEN 1 ELSE 2 * c

\* t.bs = append(t.bs, b). Within the capacity append writes the backing array,
\* which other slices may share, in place; beyond it a new array is allocated.
AppendBinding(w, t, b) ==
    LET s == w.tbl[t].bs
    IN IF s.len < SliceCap(w, s)
       THEN LET e == w.arrs[s.arr].elems
            IN [w EXCEPT !.arrs[s.arr].elems =
                              [i \in 1..Max(Len(e), s.len + 1) |->
                                  IF i = s.len + 1 THEN b ELSE e[i]],
                         !.tbl[t].bs.len = s.len + 1]
       ELSE [w EXCEPT !.arrs[NewRef] = [cap   |-> GrowCap(SliceCap(w, s)),
                                        elems |-> Append(SliceElems(w, s), b)],
                      !.tbl[t].bs = [arr |-> NewRef, len |-> s.len + 1]]

\* The loop of AddBindings without the lookup in mbs: every name is appended.
RECURSIVE AddBindingsLoop_NoLookup(_, _, _)
AddBindingsLoop_NoLookup(w, t, bs) ==
    IF bs = <<>> THEN w
    ELSE LET b == Head(bs)
             m == w.tbl[t].mbs
         IN AddBindingsLoop_NoLookup(
                AppendBinding([w EXCEPT !.maps[m] = @ \cup {b}], t, b),
                t, Tail(bs))

RECURSIVE AddBindingsLoop(_, _, _)
AddBindingsLoop(w, t, bs) ==
    IF bs = <<>> THEN w
    ELSE LET b == Head(bs)
             m == w.tbl[t].mbs
         IN IF b \in w.maps[m]
            THEN AddBindingsLoop(w, t, Tail(bs))
            ELSE AddBindingsLoop(
                     AppendBinding([w EXCEPT !.maps[m] = @ \cup {b}], t, b),
                     t, Tail(bs))

\* Table.AddBindings(bs)
AddBindings(w, t, bs) == [w |-> Norm(AddBindingsLoop(w, t, bs)), err |-> FALSE]

\* Table.AddRow(r)
AddRow(w, t, r) == [w |-> [w EXCEPT !.tbl[t].data = Append(@, r)], err |-> FALSE]

\* equalBindings without the comparison of the sizes.
equalBindings_NoSizeCheck(b1, b2) == \A k \in b1 : k \in b2

\* equalBindings(b1, b2)
equalBindings(b1, b2) ==
    IF Cardinality(b1) # Cardinality(b2) THEN FALSE
    ELSE \A k \in b1 : k \in b2

\* AppendTable that leaves the bindings of t alone.
AppendTable_KeepsBindings(w, t, t2) ==
    IF Len(Bindings(w, t)) > 0
       /\ ~equalBindings(w.maps[w.tbl[t].mbs], w.maps[w.tbl[t2].mbs])
    THEN [w |-> w, err |-> TRUE]
    ELSE [w |-> Norm([w EXCEPT !.tbl[t].data = w.tbl[t].data \o w.tbl[t2].data]),
          err |-> FALSE]

\* Table.AppendTable(t2)
AppendTable(w, t, t2) ==
    IF Len(Bindings(w, t)) > 0
       /\ ~equalBindings(w.maps[w.tbl[t].mbs], w.maps[w.tbl[t2].mbs])
    THEN [w |-> w, err |-> TRUE]
    ELSE LET w1 == IF Len(Bindings(w, t)) = 0
                   THEN [w EXCEPT !.tbl[t].bs = w.tbl[t2].bs,
                                  !.tbl[t].mbs = w.tbl[t2].mbs]
                   ELSE w
             w2 == [w1 EXCEPT !.tbl[t].data = w1.tbl[t].data \o w1.tbl[t2].data]
         IN [w |-> Norm(w2), err |-> FALSE]

\* disjointBinding without the second counting loop.
disjointBinding_CountsFirstOnly(b1, b2) ==
    LET m == [k \in b1 |-> 1]
    IN \A k \in DOMAIN m : m[k] = 1

\* disjointBinding(b1, b2): counts in how many of the two maps each key occurs.
disjointBinding(b1, b2) ==
    LET m == [k \in b1 \cup b2 |->
                 (IF k \in b1 THEN 1 ELSE 0) + (IF k \in b2 THEN 1 ELSE 0)]
    IN \A k \in DOMAIN m : m[k] = 1

\* MergeRows(ms): later rows overwrite the cells of earlier ones.
RECURSIVE MergeRows(_)
MergeRows(ms) ==
    IF ms = <<>> THEN <<>>
    ELSE LET res == MergeRows(SubSeq(ms, 1, Len(ms) - 1))
             om  == ms[Len(ms)]
         IN [k \in DOMAIN res \cup DOMAIN om |->
                IF k \in DOMAIN om THEN om[k] ELSE res[k]]

\* The inner loop of DotProduct: one merged row per row of t2.
RECURSIVE ProductInner(_, _)
ProductInner(r1, d2) ==
    IF d2 = <<>> THEN <<>>
    ELSE <<MergeRows(<<r1, Head(d2)>>)>> \o ProductInner(r1, Tail(d2))

\* The outer loop of DotProduct over the former rows of t.
RECURSIVE ProductOuter(_, _)
ProductOuter(td, d2) ==
    IF td = <<>> THEN <<>>
    ELSE ProductInner(Head(td), d2) \o ProductOuter(Tail(td), d2)

RECURSIVE AppendAll(_, _, _)
AppendAll(w, t, order) ==
    IF order = <<>> THEN w
    ELSE AppendAll(AppendBinding(w, t, Head(order)), t, Tail(order))

\* The orders in which `for k := range m` may visit the keys of a map.
RangeOrders(m) ==
    {o \in [1..Cardinality(m) -> m] : \A i, j \in DOMAIN o : i # j => o[i] # o[j]}

\* Table.DotProduct(t2); order is the order in which range visits the merged map.
DotProduct(w, t, t2, order) ==
    IF ~disjointBinding(w.maps[w.tbl[t].mbs], w.maps[w.tbl[t2].mbs])
    THEN [w |-> w, err |-> TRUE]
    ELSE LET m  == w.maps[w.tbl[t].mbs] \cup w.maps[w.tbl[t2].mbs]
             w1 == [w EXCEPT !.maps[NewRef] = m,
                             !.tbl[t].mbs = NewRef,
                             !.tbl[t].bs = NilSlice]
             w2 == AppendAll(w1, t, order)
             td == w2.tbl[t].data
             w3 == [w2 EXCEPT !.tbl[t].data = <<>>]
             w4 == [w3 EXCEPT !.tbl[t].data = ProductOuter(td, w3.tbl[t2].data)]
         IN [w |-> Norm(w4), err |-> FALSE]

\* DeleteRow that accepts i = len(t.data).
DeleteRow_OffByOne(w, t, i) ==
    LET d == w.tbl[t].data
    IN IF i < 0 \/ i > Len(d)
       THEN [w |-> w, err |-> TRUE]
       ELSE [w   |-> [w EXCEPT !.tbl[t].data = SubSeq(d, 1, i) \o SubSeq(d, i + 2, Len(d))],
             err |-> FALSE]

\* Table.DeleteRow(i)
DeleteRow(w, t, i) ==
    LET d == w.tbl[t].data
    IN IF i < 0 \/ i >= Len(d)
       THEN [w |-> w, err |-> TRUE]
       ELSE [w   |-> [w EXCEPT !.tbl[t].data = SubSeq(d, 1, i) \o SubSeq(d, i + 2, Len(d))],
             err |-> FALSE]

\* Table.Truncate()
Truncate(w, t) == [w |-> [w EXCEPT !.tbl[t].data = <<>>], err |-> FALSE]

\* --------------------------------------------------------------------- text
\* Text is a sequence of non-empty tokens; writing "" adds nothing.
Tok(s) == IF s = "" THEN <<>> ELSE <<s>>

\* strings.Join(a, sep)
RECURSIVE Join(_, _)
Join(a, sep) ==
    IF Len(a) = 0 THEN <<>>
    ELSE IF Len(a) = 1 THEN Tok(a[1])
    ELSE Tok(a[1]) \o Tok(sep) \o Join(Tail(a), sep)

\* Row.ToTextLine(res, bs, sep), the loop from position i of bs on.
RECURSIVE ToTextLineFrom(_, _, _, _)
ToTextLineFrom(r, bs, sep, i) ==
    IF i > Len(bs) THEN <<>>
    ELSE LET cnt == Len(bs) - i
             v   == IF bs[i] \in DOMAIN r THEN CellString(r[bs[i]]) ELSE <<"<NULL>">>
         IN v \o (IF cnt > 0 THEN Tok(sep) ELSE <<>>) \o ToTextLineFrom(r, bs, sep, i + 1)

\* Row.ToTextLine(res, bs, sep)
ToTextLine(r, bs, sep) ==
    LET sp == IF sep = "" THEN "\t" ELSE sep
    IN ToTextLineFrom(r, bs, sp, 1)

RECURSIVE ToTextRows(_, _, _)
ToTextRows(data, bs, sep) ==
    IF data = <<>> THEN <<>>
    ELSE ToTextLine(Head(data), bs, sep) \o <<"\n">> \o ToTextRows(Tail(data), bs, sep)

\* Table.ToText(sep)
ToText(w, t, sep) ==
    Join(Bindings(w, t), sep) \o <<"\n">> \o ToTextRows(w.tbl[t].data, Bindings(w, t), sep)

\* Every table variable starts as New([]string{}).
InitWorld ==
    Norm([tbl  |-> [t \in Tables |-> [bs |-> NilSlice, mbs |-> t, data |-> <<>>]],
          arrs |-> [r \in Refs |-> NoArray],
          maps |-> [r \in Refs |-> {}]])

\* ----------------------------------------------------------------- triples
\* A node is [type, id], a predicate [id, anchor] with anchor None (immutable)
\* or Some(instant); an object holds exactly one of a node, a predicate or a
\* literal; a triple is [s, p, o].
Object(n, p, l) == [N |-> n, P |-> p, L |-> l]
ObjectOfNode(n) == Object(Some(n), None, None)
ObjectOfPredicate(p) == Object(None, Some(p), None)
ObjectOfLiteral(l) == Object(None, None, Some(l))
CellN(n) == Cell("", Some(n), None, None, None)
CellP(p) == Cell("", None, Some(p), None, None)
CellT(t) == Cell("", None, None, None, Some(t))
CellL(l) == Cell("", None, None, Some(l), None)

Immutable == "IMMUTABLE"
Temporal == "TEMPORAL"

\* Predicate.Type()
PredicateType(p) == IF p.anchor = None THEN Immutable ELSE Temporal

\* Predicate.TimeAnchor(): an error exactly for a predicate without anchor.
TimeAnchor(p) ==
    IF p.anchor = None THEN [t |-> None, err |-> TRUE]
    ELSE [t |-> p.anchor, err |-> FALSE]

\* triple.New(s, p, o)
Triple(s, p, o) == [s |-> s, p |-> p, o |-> o]

\* ------------------------------------------------------------ graph clause
\* semantic.GraphClause: optional concrete S, P, O; "" for an unset name; None
\* for an unset time bound.
EmptyClause ==
    [S |-> None, SBinding |-> "", SAlias |-> "", STypeAlias |-> "", SIDAlias |-> "",
     P |-> None, PID |-> "", PBinding |-> "", PAlias |-> "", PIDAlias |-> "",
     PAnchorBinding |-> "", PAnchorAlias |-> "",
     PLowerBound |-> None, PUpperBound |-> None,
     PLowerBoundAlias |-> "", PUpperBoundAlias |-> "", PTemporal |-> FALSE,
     O |-> None, OID |-> "", OBinding |-> "", OAlias |-> "", OTypeAlias |-> "",
     OIDAlias |-> "", OAnchorBinding |-> "", OAnchorAlias |-> "",
     OLowerBound |-> None, OUpperBound |-> None,
     OLowerBoundAlias |-> "", OUpperBoundAlias |-> "", OTemporal |-> FALSE]

\* The slots of a clause that write a cell, in the order tripleToRow visits them.
RowSlots ==
    <<"SBinding", "SAlias", "STypeAlias", "SIDAlias",
      "PBinding", "PAlias", "PIDAlias", "PAnchorBinding", "PAnchorAlias",
      "OBinding", "OAlias", "OTypeAlias", "OIDAlias", "OAnchorBinding", "OAnchorAlias">>

\* GraphClause.Bindings(): the names the clause sets, each once.
RECURSIVE UniqueNames(_, _)
UniqueNames(names, seen) ==
    IF names = <<>> THEN <<>>
    ELSE IF Head(names) = "" \/ Head(names) \in seen
         THEN UniqueNames(Tail(names), seen)
         ELSE <<Head(names)>> \o UniqueNames(Tail(names), seen \cup {Head(names)})

ClauseBindings(cls) ==
    UniqueNames([i \in 1..Len(RowSlots) |-> cls[RowSlots[i]]]
                \o <<cls.PLowerBoundAlias, cls.PUpperBoundAlias,
                     cls.OLowerBoundAlias, cls.OUpperBoundAlias>>, {})

\* ------------------------------------------------------------- tripleToRow
\* objectToCell(o)
objectToCell(o) ==
    IF o.N # None THEN [cell |-> Cell("", o.N, None, None, None), err |-> FALSE]
    ELSE IF o.P # None THEN [cell |-> Cell("", None, o.P, None, None), err |-> FALSE]
    ELSE IF o.L # None THEN [cell |-> Cell("", None, None, o.L, None), err |-> FALSE]
    ELSE [cell |-> EmptyCell, err |-> TRUE]

SlotError == [cell |-> EmptyCell, err |-> TRUE, valid |-> FALSE]
SlotCell(c) == [cell |-> c, err |-> FALSE, valid |-> TRUE]

\* What one slot of tripleToRow computes for triple t: an error, or the cell it
\* writes and whether the write goes through validBinding.
SlotValue(slot, t) ==
    CASE slot \in {"SBinding", "SAlias"} -> SlotCell(CellN(t.s))
      [] slot = "STypeAlias" -> SlotCell(CellS(t.s.type))
      [] slot = "SIDAlias" -> SlotCell(CellS(t.s.id))
      [] slot \in {"PBinding", "PAlias"} -> SlotCell(CellP(t.p))
      [] slot = "PIDAlias" -> SlotCell(CellS(t.p.id))
      [] slot \in {"PAnchorBinding", "PAnchorAlias"} ->
            IF PredicateType(t.p) # Temporal THEN SlotError
            ELSE IF TimeAnchor(t.p).err THEN SlotError
            ELSE SlotCell(CellT(TimeAnchor(t.p).t[1]))
      [] slot \in {"OBinding", "OAlias"} ->
            IF objectToCell(t.o).err THEN SlotError
            ELSE SlotCell(objectToCell(t.o).cell)
      [] slot = "OTypeAlias" ->
            IF t.o.N = None THEN SlotError
            ELSE SlotCell(CellS(t.o.N[1].type))
      [] slot = "OIDAlias" ->
            IF t.o.N # None
            THEN [cell |-> CellS(t.o.N[1].id), err |-> FALSE, valid |-> FALSE]
            ELSE IF t.o.P = None THEN SlotError
            ELSE SlotCell(CellS(t.o.P[1].id))
      [] slot \in {"OAnchorBinding", "OAnchorAlias"} ->
            IF t.o.P = None THEN SlotError
            ELSE IF TimeAnchor(t.o.P[1]).err THEN SlotError
            ELSE SlotCell(CellT(TimeAnchor(t.o.P[1]).t[1]))

\* The slots of tripleToRow from position i on; r is the row so far and bnd the
\* map validBinding keeps. The result is an error, no row (nil, nil), or a row.
RECURSIVE tripleToRowFrom(_, _, _, _, _)
tripleToRowFrom(t, cls, i, r, bnd) ==
    IF i > Len(RowSlots) THEN [row |-> Some(r), err |-> FALSE]
    ELSE LET k == cls[RowSlots[i]]
             v == SlotValue(RowSlots[i], t)
             r1 == [b \in DOMAIN r \cup {k} |-> IF b = k THEN v.cell ELSE r[b]]
         IN IF k = "" THEN tripleToRowFrom(t, cls, i + 1, r, bnd)
            ELSE IF v.err THEN [row |-> None, err |-> TRUE]
            ELSE IF ~v.valid THEN tripleToRowFrom(t, cls, i + 1, r1, bnd)
            ELSE IF k \in DOMAIN bnd /\ bnd[k] # v.cell
                 THEN [row |-> None, err |-> FALSE]
                 ELSE tripleToRowFrom(t, cls, i + 1, r1,
                          [b \in DOMAIN bnd \cup {k} |-> IF b = k THEN v.cell ELSE bnd[b]])

\* tripleToRow that gives no row where a slot fails, instead of the error.
tripleToRow_DropsOnError(t, cls) ==
    [row |-> tripleToRowFrom(t, cls, 1, <<>>, <<>>).row, err |-> FALSE]

\* tripleToRow(t, cls)
tripleToRow(t, cls) == tripleToRowFrom(t, cls, 1, <<>>, <<>>)

\* ---------------------------------------------------------- lookup options
\* storage.LookupOptions: MaxElements (0: no cap) and the optional anchors.
LookupOptions(max, lower, upper) ==
    [MaxElements |-> max, LowerAnchor |-> lower, UpperAnchor |-> upper]
DefaultLookup == LookupOptions(0, None, None)

\* The lookup checker of the storage, built from options: c is the number of
\* elements it may still accept.
newChecker(lo) == [max |-> lo.MaxElements > 0, c |-> lo.MaxElements, o |-> lo]

\* The checker that never counts down its cap.
CheckAndUpdate_NoCap(ck, p) ==
    IF p.anchor = None THEN [ok |-> TRUE, ck |-> ck]
    ELSE IF ck.o.LowerAnchor # None /\ p.anchor[1] < ck.o.LowerAnchor[1]
         THEN [ok |-> FALSE, ck |-> ck]
    ELSE IF ck.o.UpperAnchor # None /\ p.anchor[1] > ck.o.UpperAnchor[1]
         THEN [ok |-> FALSE, ck |-> ck]
    ELSE [ok |-> TRUE, ck |-> ck]

\* checker.CheckAndUpdate(p): the answer and the checker afterwards.
CheckAndUpdate(ck, p) ==
    IF ck.max /\ ck.c <= 0 THEN [ok |-> FALSE, ck |-> ck]
    ELSE IF p.anchor = None THEN [ok |-> TRUE, ck |-> [ck EXCEPT !.c = @ - 1]]
    ELSE IF ck.o.LowerAnchor # None /\ p.anchor[1] < ck.o.LowerAnchor[1]
         THEN [ok |-> FALSE, ck |-> ck]
    ELSE IF ck.o.UpperAnchor # None /\ p.anchor[1] > ck.o.UpperAnchor[1]
         THEN [ok |-> FALSE, ck |-> ck]
    ELSE [ok |-> TRUE, ck |-> [ck EXCEPT !.c = @ - 1]]

\* updateTimeBounds(lo, cls): tightens the options it is handed in place and
\* returns new, empty options. lo is the caller's value afterwards, nlo the
\* value returned.
updateTimeBounds(lo, cls) ==
    LET l1 == IF cls.PLowerBound # None
                 /\ (lo.LowerAnchor = None \/ cls.PLowerBound[1] > lo.LowerAnchor[1])
              THEN [lo EXCEPT !.LowerAnchor = cls.PLowerBound]
              ELSE lo
        l2 == IF cls.PUpperBound # None
                 /\ (l1.UpperAnchor = None \/ cls.PUpperBound[1] < l1.UpperAnchor[1])
              THEN [l1 EXCEPT !.UpperAnchor = cls.PUpperBound]
              ELSE l1
    IN [lo |-> l2, nlo |-> LookupOptions(0, None, None)]

\* What updateTimeBoundsForRow ends with: options, an error, or the panic of
\* a nil cell being read; caller is the caller's options afterwards.
RowOptions(nlo, caller) == [kind |-> "options", lo |-> Some(nlo), caller |-> caller]
RowBoundError(caller) == [kind |-> "error", lo |-> None, caller |-> caller]
RowBoundPanic(caller) == [kind |-> "panic", lo |-> None, caller |-> caller]

\* updateTimeBoundsForRow(lo, cls, r): the first updateTimeBounds tightens the
\* caller's options and hands back the options the aliases then work on; the
\* second one tightens those and its result is what the function returns.
updateTimeBoundsForRow(lo, cls, r) ==
    LET first == updateTimeBounds(lo, cls)
        l0 == first.nlo
        la == cls.PLowerBoundAlias
        ua == cls.PUpperBoundAlias
        l1 == IF la # "" /\ (l0.LowerAnchor = None \/ r[la].T[1] > l0.LowerAnchor[1])
              THEN [l0 EXCEPT !.LowerAnchor = r[la].T]
              ELSE l0
        l2 == IF ua # "" /\ (l1.UpperAnchor = None \/ r[ua].T[1] > l1.UpperAnchor[1])
              THEN [l1 EXCEPT !.UpperAnchor = r[ua].T]
              ELSE l1
    IN IF la # "" /\ la \in DOMAIN r /\ r[la].T = None THEN RowBoundError(first.lo)
       ELSE IF la # "" /\ la \notin DOMAIN r THEN RowBoundPanic(first.lo)
       ELSE IF ua # "" /\ ua \in DOMAIN r /\ r[ua].T = None THEN RowBoundError(first.lo)
       ELSE IF ua # "" /\ ua \notin DOMAIN r THEN RowBoundPanic(first.lo)
       ELSE RowOptions(updateTimeBounds(l2, cls).nlo, first.lo)

\* ----------------------------------------------------------------- storage
\* A graph is the sequence of its triples in the order its enumerators yield
\* them. The elements of ts the checker accepts, in order.
RECURSIVE Checked(_, _)
Checked(ts, ck) ==
    IF ts = <<>> THEN <<>>
    ELSE LET r == CheckAndUpdate(ck, Head(ts).p)
         IN (IF r.ok THEN <<Head(ts)>> ELSE <<>>) \o Checked(Tail(ts), r.ck)

Matching(g, s, p, o) ==
    SelectSeq(g, LAMBDA t : /\ (s # None => t.s = s[1])
                            /\ (p # None => t.p = p[1])
                            /\ (o # None => t.o = o[1]))

\* Graph.Exist(t)
Exist(g, t) == \E i \in 1..Len(g) : g[i] = t

\* The branch of simpleFetch a clause takes, named by the storage call it
\* makes: the eight tests of S, P and O in the order of the code, and the
\* error the function ends with when none of them holds.
Unrecognized == "unrecognized"

\* The tests with the SO and the PO requests calling each other's enumerator.
CallKind_SwapsSOAndPO(cls) ==
    LET s == cls.S # None
        p == cls.P # None
        o == cls.O # None
    IN IF s /\ p /\ o THEN "Exist"
       ELSE IF s /\ p /\ ~o THEN "Objects"
       ELSE IF s /\ ~p /\ o THEN "Subjects"
       ELSE IF ~s /\ p /\ o THEN "PredicatesForSubjectAndObject"
       ELSE IF s /\ ~p /\ ~o THEN "TriplesForSubject"
       ELSE IF ~s /\ p /\ ~o THEN "TriplesForPredicate"
       ELSE IF ~s /\ ~p /\ o THEN "TriplesForObject"
       ELSE IF ~s /\ ~p /\ ~o THEN "Triples"
       ELSE Unrecognized

CallKind(cls) ==
    LET s == cls.S # None
        p == cls.P # None
        o == cls.O # None
    IN IF s /\ p /\ o THEN "Exist"
       ELSE IF s /\ p /\ ~o THEN "Objects"
       ELSE IF s /\ ~p /\ o THEN "PredicatesForSubjectAndObject"
       ELSE IF ~s /\ p /\ o THEN "Subjects"
       ELSE IF s /\ ~p /\ ~o THEN "TriplesForSubject"
       ELSE IF ~s /\ p /\ ~o THEN "TriplesForPredicate"
       ELSE IF ~s /\ ~p /\ o THEN "TriplesForObject"
       ELSE IF ~s /\ ~p /\ ~o THEN "Triples"
       ELSE Unrecognized

\* The Exist branch without the test of the answer: the triple is always added.
FetchedTriples_IgnoresExist(g, cls, lo) ==
    CASE CallKind(cls) = "Exist" -> <<Triple(cls.S[1], cls.P[1], cls.O[1])>>
      [] CallKind(cls) = "Triples" -> g
      [] OTHER -> Checked(Matching(g, cls.S, cls.P, cls.O), newChecker(lo))

\* The triples one branch of simpleFetch hands to addTriples for graph g.
FetchedTriples(g, cls, lo) ==
    CASE CallKind(cls) = "Exist" ->
            IF Exist(g, Triple(cls.S[1], cls.P[1], cls.O[1]))
            THEN <<Triple(cls.S[1], cls.P[1], cls.O[1])>> ELSE <<>>
      [] CallKind(cls) = "Triples" -> g
      [] OTHER -> Checked(Matching(g, cls.S, cls.P, cls.O), newChecker(lo))

\* -------------------------------------------------------------- addTriples
NoError == "none"
RowError == "row"
StorageError == "storage"
BindingsError == "bindings"

\* The filters without the test of the predicate's upper bound.
Filtered_NoUpperBound(t, cls) ==
    \/ /\ cls.PID # ""
       /\ \/ t.p.id # cls.PID
          \/ /\ cls.PTemporal /\ PredicateType(t.p) = Temporal
             /\ cls.PLowerBound # None /\ cls.PLowerBound[1] > t.p.anchor[1]
    \/ /\ cls.OID # ""
       /\ t.o.P # None
       /\ \/ t.o.P[1].id # cls.OID
          \/ /\ cls.OTemporal /\ PredicateType(t.o.P[1]) = Temporal
             /\ \/ cls.OLowerBound # None /\ cls.OLowerBound[1] > t.o.P[1].anchor[1]
                \/ cls.OUpperBound # None /\ cls.OUpperBound[1] < t.o.P[1].anchor[1]

\* Whether addTriples skips triple t after building its row.
Filtered(t, cls) ==
    \/ /\ cls.PID # ""
       /\ \/ t.p.id # cls.PID
          \/ /\ cls.PTemporal /\ PredicateType(t.p) = Temporal
             /\ \/ cls.PLowerBound # None /\ cls.PLowerBound[1] > t.p.anchor[1]
                \/ cls.PUpperBound # None /\ cls.PUpperBound[1] < t.p.anchor[1]
    \/ /\ cls.OID # ""
       /\ t.o.P # None
       /\ \/ t.o.P[1].id # cls.OID
          \/ /\ cls.OTemporal /\ PredicateType(t.o.P[1]) = Temporal
             /\ \/ cls.OLowerBound # None /\ cls.OLowerBound[1] > t.o.P[1].anchor[1]
                \/ cls.OUpperBound # None /\ cls.OUpperBound[1] < t.o.P[1].anchor[1]

\* addTriples putting each new row in front of the rows already in the table.
RECURSIVE addTriples_NewestFirst(_, _, _)
addTriples_NewestFirst(ts, cls, acc) ==
    IF ts = <<>> THEN acc
    ELSE LET t == Head(ts)
             r == tripleToRow(t, cls)
         IN IF r.err
            THEN [acc EXCEPT !.err = RowError, !.unread = Len(ts) - 1]
            ELSE IF Filtered(t, cls) \/ r.row = None
                 THEN addTriples_NewestFirst(Tail(ts), cls, acc)
                 ELSE addTriples_NewestFirst(Tail(ts), cls,
                          [acc EXCEPT !.w.tbl["t1"].data = <<r.row[1]>> \o @,
                                      !.src = <<t>> \o @])

\* addTriples(ts, cls, tbl): acc.w holds the table "t1", acc.src the triples
\* its rows come from, acc.unread the triples left in a channel that was not
\* read to its end.
RECURSIVE addTriples(_, _, _)
addTriples(ts, cls, acc) ==
    IF ts = <<>> THEN acc
    ELSE LET t == Head(ts)
             r == tripleToRow(t, cls)
         IN IF r.err
            THEN [acc EXCEPT !.err = RowError, !.unread = Len(ts) - 1]
            ELSE IF Filtered(t, cls) \/ r.row = None
                 THEN addTriples(Tail(ts), cls, acc)
                 ELSE addTriples(Tail(ts), cls,
                          [acc EXCEPT !.w = AddRow(@, "t1", r.row[1]).w,
                                      !.src = Append(@, t)])

\* The loop that goes on to the next graph when a storage call fails.
RECURSIVE FetchFrom_SkipsFailedGraph(_, _, _, _, _, _)
FetchFrom_SkipsFailedGraph(gs, i, cls, lo, failAt, acc) ==
    IF i > Len(gs) THEN acc
    ELSE LET called == [acc EXCEPT !.calls =
                          Append(@, [kind |-> CallKind(cls), graph |-> i,
                                     lo |-> IF CallKind(cls) \in {"Exist", "Triples"}
                                            THEN None ELSE Some(lo)])]
         IN IF failAt = i
            THEN FetchFrom_SkipsFailedGraph(gs, i + 1, cls, lo, failAt, called)
            ELSE LET a == addTriples(FetchedTriples(gs[i], cls, lo), cls, called)
                 IN IF a.err # NoError THEN a
                    ELSE FetchFrom_SkipsFailedGraph(gs, i + 1, cls, lo, failAt, a)

\* The loop of simpleFetch over the graphs from position i on; failAt is the
\* position of the graph whose storage call returns an error (0: none). A call
\* is recorded with the options it is handed (None: the call takes none).
RECURSIVE FetchFrom(_, _, _, _, _, _)
FetchFrom(gs, i, cls, lo, failAt, acc) ==
    IF i > Len(gs) THEN acc
    ELSE LET called == [acc EXCEPT !.calls =
                          Append(@, [kind |-> CallKind(cls), graph |-> i,
                                     lo |-> IF CallKind(cls) \in {"Exist", "Triples"}
                                            THEN None ELSE Some(lo)])]
         IN IF failAt = i THEN [called EXCEPT !.err = StorageError]
            ELSE LET a == addTriples(FetchedTriples(gs[i], cls, lo), cls, called)
                 IN IF a.err # NoError THEN a
                    ELSE FetchFrom(gs, i + 1, cls, lo, failAt, a)

\* simpleFetch(gs, cls, lo): tbl is the table returned (None: nil), err the
\* error, calls the storage calls made, lo the caller's options afterwards.
simpleFetch(gs, cls, lo, failAt) ==
    LET ub  == updateTimeBounds(lo, cls)
        new == New(InitWorld, "t1", ClauseBindings(cls))
        acc == FetchFrom(gs, 1, cls, ub.nlo, failAt,
                         [w |-> new.w, err |-> NoError, src |-> <<>>,
                          calls |-> <<>>, unread |-> 0])
    IN IF new.err
       THEN [tbl |-> None, err |-> BindingsError, src |-> <<>>, calls |-> <<>>,
             unread |-> 0, lo |-> ub.lo]
       ELSE IF CallKind(cls) = Unrecognized
       THEN [tbl |-> None, err |-> Unrecognized, src |-> <<>>, calls |-> <<>>,
             unread |-> 0, lo |-> ub.lo]
       ELSE [tbl |-> IF acc.err = NoError THEN Some(acc.w) ELSE None,
             err |-> acc.err,
             src |-> IF acc.err = NoError THEN acc.src ELSE <<>>,
             calls |-> acc.calls, unread |-> acc.unread, lo |-> ub.lo]

\* ---------------------------------------------------------- predicate texts
\* A text is the sequence of its characters; an instant formats to the two
\* characters of TimeFormat. An id is a text in this part of the model.
Quote == "\""
Backslash == "\\"
Space == " "

\* strings.TrimSpace
RECURSIVE TrimLeft(_)
TrimLeft(s) == IF s # <<>> /\ Head(s) = Space THEN TrimLeft(Tail(s)) ELSE s
RECURSIVE TrimRight(_)
TrimRight(s) ==
    IF s # <<>> /\ s[Len(s)] = Space THEN TrimRight(SubSeq(s, 1, Len(s) - 1)) ELSE s
TrimSpace(s) == TrimRight(TrimLeft(s))

\* The body of fmt's %q for a text of printable characters: the double quote
\* and the backslash are escaped with a backslash.
RECURSIVE Escaped(_)
Escaped(s) ==
    IF s = <<>> THEN <<>>
    ELSE (IF Head(s) \in {Quote, Backslash} THEN <<Backslash, Head(s)>> ELSE <<Head(s)>>)
         \o Escaped(Tail(s))

\* Predicate.String() character by character.
String(p) ==
    IF p.anchor = None
    THEN <<Quote>> \o Escaped(p.id) \o <<Quote, "@", "[", "]">>
    ELSE <<Quote>> \o Escaped(p.id) \o <<Quote, "@", "[">>
         \o TimeFormat(p.anchor[1]) \o <<"]">>

\* strings.Index(s, sep): the offset from 0 of the first sep in s, or -1.
Index(s, sep) ==
    LET at == {i \in 0..(Len(s) - Len(sep)) : SubSeq(s, i + 1, i + Len(sep)) = sep}
    IN IF at = {} THEN -1 ELSE CHOOSE i \in at : \A j \in at : i <= j

\* The slice s[a:b] of Go, and whether taking it panics.
SliceInRange(s, a, b) == 0 <= a /\ a <= b /\ b <= Len(s)
Slice(s, a, b) == SubSeq(s, a + 1, b)

\* time.Parse(time.RFC3339Nano, ta) for the instants of the model.
TimeInputs == {1, 2}
TimeParse(ta) ==
    IF \E t \in TimeInputs : TimeFormat(t) = ta
    THEN [ok |-> TRUE, t |-> CHOOSE t \in TimeInputs : TimeFormat(t) = ta]
    ELSE [ok |-> FALSE, t |-> 0]

\* What a call ends with: a predicate, an error, or a run-time panic.
Returned(p) == [kind |-> "predicate", p |-> Some(p)]
Failed == [kind |-> "error", p |-> None]
Panicked == [kind |-> "panic", p |-> None]

\* predicate.Parse(s)
Parse(s) ==
    LET raw == TrimSpace(s)
        idx == Index(raw, <<Quote, "@", "[">>)
        id  == Slice(raw, 1, idx)
        ta  == Slice(raw, idx + 3, Len(raw) - 1)
        ta1 == IF ta[1] = Quote THEN Tail(ta) ELSE ta
        ta2 == IF ta1[Len(ta1)] = Quote THEN SubSeq(ta1, 1, Len(ta1) - 1) ELSE ta1
    IN IF raw = <<>> THEN Failed
       ELSE IF raw[1] # Quote THEN Failed
       ELSE IF idx < 0 THEN Failed
       ELSE IF ~SliceInRange(raw, 1, idx) \/ ~SliceInRange(raw, idx + 3, Len(raw) - 1)
            THEN Panicked
       ELSE IF ta = <<>> THEN Returned([id |-> id, anchor |-> None])
       ELSE IF ta1 = <<>> THEN Panicked
       ELSE IF ~TimeParse(ta2).ok THEN Failed
       ELSE Returned([id |-> id, anchor |-> Some(TimeParse(ta2).t)])

\* predicate.NewImmutable(id) and predicate.NewTemporal(id, t)
NewImmutable(id) ==
    IF id = <<>> THEN Failed ELSE Returned([id |-> id, anchor |-> None])
NewTemporal(id, t) ==
    IF id = <<>> THEN Failed ELSE Returned([id |-> id, anchor |-> Some(t)])

\* -------------------------------------------------------------------- state
\* world: the heap of the tables.  twin: a second run of the same calls.
\* last: the call made last, its receiver and whether it returned an error.
VARIABLES world, twin, last

\* store: the graphs of the storage, in the order of the graph list.
\* plan: the clause simpleFetch, or updateTimeBoundsForRow, was called with and
\* what it returned.
VARIABLES store, plan

\* pred: the call of the predicate package made last and what it ended with.
VARIABLES pred

\* stmt: the statement under parsing, inside its where block.
\* chk: a lookup checker and the answers it has given.
VARIABLES stmt, chk

vars == <<world, twin, last, store, plan, pred, stmt, chk>>

\* The variables outside the table package, outside the planner, outside the
\* predicate package, outside the parser, and outside the lookup checker.
notTable == <<store, plan, pred, stmt, chk>>
notPlanner == <<world, twin, last, pred, stmt, chk>>
notPredicate == <<world, twin, last, store, plan, stmt, chk>>
notWhere == <<world, twin, last, store, plan, pred, chk>>
notChecker == <<world, twin, last, store, plan, pred, stmt>>

\* No call of the predicate package has been made.
NoCall == [op |-> "init", text |-> <<>>, src |-> None, res |-> [kind |-> "none", p |-> None]]

\* The states of the working clause, how a parse stands, and the tokens that
\* carry no value.
Empty == "Empty"
SubjectSeen == "SubjectSeen"
PredicateSeen == "PredicateSeen"
ObjectSeen == "ObjectSeen"

Parsing == "parsing"
Accepted == "accepted"
ParseError == "parse error"
SemanticError == "semantic error"

NoToken == [kind |-> "none"]
Dot == [kind |-> "."]
RightBrace == [kind |-> "}"]

\* The statement when the '{' of the where block has been consumed.
WhereInit ==
    [state |-> Empty, wc |-> EmptyClause, clauses |-> <<>>,
     tok |-> NoToken, from |-> Empty, status |-> Parsing]

\* No lookup checker has been built.
NoChecker == [built |-> FALSE, ck |-> newChecker(DefaultLookup), asked |-> <<>>,
              answers |-> <<>>]

\* No simpleFetch call has been made.
NoFetch == [called |-> FALSE]

NoOp == [op |-> "init", t |-> Nil, err |-> FALSE]

Called(op, t, err) == [op |-> op, t |-> t, err |-> err]

\* Rows handed to AddRow.

RowA == [b \in {"?a"} |-> CellS("x")]
RowAB == [b \in {"?a", "?b"} |-> IF b = "?a" THEN CellS("x") ELSE EmptyCell]
RowBC == [b \in {"?b", "?c"} |->
            IF b = "?b" THEN CellP([id |-> "knows", anchor |-> None])
            ELSE CellN([type |-> "/u", id |-> "john"])]
RowInputs == {RowA, RowAB}
\* Rows handed to AddRow where a single table is written.
RowsOne == {RowA, RowAB, RowBC}

\* Binding lists handed to New and AddBindings.
BsInputs == SeqsUpTo(Names, MaxBs)

\* Binding lists handed to New, and to AddBindings, where the rows are what matters.
BsData == {<<>>, <<"?a">>, <<"?b">>}
BsAdd == {<<"?a">>}

\* Separators handed to ToText.
SepInputs == {"", ","}

Init ==
    /\ world = InitWorld
    /\ twin = InitWorld
    /\ last = NoOp
    /\ store = <<>>
    /\ plan = NoFetch
    /\ pred = NoCall
    /\ stmt = WhereInit
    /\ chk = NoChecker

\* Each action makes one call on the tables of TS with arguments drawn from
\* the given sets.
DoNew(TS, BS) ==
    \E t \in TS, bs \in BS :
        LET r == New(world, t, bs)
        IN /\ world' = r.w
           /\ last' = Called("New", t, r.err)
           /\ UNCHANGED <<twin, notTable>>

DoAddBindings(TS, BS) ==
    \E t \in TS, bs \in BS :
        /\ world' = AddBindings(world, t, bs).w
        /\ last' = Called("AddBindings", t, FALSE)
        /\ UNCHANGED <<twin, notTable>>

DoAddRow(TS, RS) ==
    \E t \in TS, row \in RS :
        /\ NumRows(world, t) < MaxRows
        /\ world' = AddRow(world, t, row).w
        /\ last' = Called("AddRow", t, FALSE)
        /\ UNCHANGED <<twin, notTable>>

DoAppendTable(TS) ==
    \E t, t2 \in TS :
        LET r == AppendTable(world, t, t2)
        IN /\ NumRows(r.w, t) <= MaxRows
           /\ world' = r.w
           /\ last' = Called("AppendTable", t, r.err)
           /\ UNCHANGED <<twin, notTable>>

DoDotProduct(TS) ==
    \E t, t2 \in TS :
        \E order \in RangeOrders(world.maps[world.tbl[t].mbs] \cup world.maps[world.tbl[t2].mbs]) :
            LET r == DotProduct(world, t, t2, order)
            IN /\ NumRows(r.w, t) <= MaxRows
               /\ world' = r.w
               /\ last' = Called("DotProduct", t, r.err)
               /\ UNCHANGED <<twin, notTable>>

DoDeleteRow(TS) ==
    \E t \in TS, i \in -1..MaxRows :
        LET r == DeleteRow(world, t, i)
        IN /\ world' = r.w
           /\ last' = Called("DeleteRow", t, r.err)
           /\ UNCHANGED <<twin, notTable>>

DoTruncate(TS) ==
    \E t \in TS :
        /\ world' = Truncate(world, t).w
        /\ last' = Called("Truncate", t, FALSE)
        /\ UNCHANGED <<twin, notTable>>

\* Table.Row(i); last keeps the index, what the call ended with and the world
\* it was made in.
DoRow(TS) ==
    \E t \in TS, i \in -1..MaxRows :
        LET r == Row(world, t, i)
        IN /\ world' = r.w
           /\ last' = [op |-> "Row", t |-> t, err |-> FALSE, i |-> i,
                       row |-> r.row, ok |-> r.ok, panic |-> r.panic, before |-> world]
           /\ UNCHANGED <<twin, notTable>>

DoToText(TS) ==
    \E t \in TS :
        /\ last' = Called("ToText", t, FALSE)
        /\ UNCHANGED <<world, twin, notTable>>

\* The calls that write bindings, with every binding list; the tables hold no rows.
Next ==
    \/ DoNew(Tables, BsInputs)
    \/ DoAddBindings(Tables, BsInputs)
    \/ DoAppendTable(Tables)
    \/ DoDotProduct(Tables)

Spec == Init /\ [][Next]_vars

\* Two tables with few binding lists and rows.
NextData ==
    \/ DoNew(Tables, BsData)
    \/ DoAddBindings(Tables, BsAdd)
    \/ DoAddRow(Tables, RowInputs)
    \/ DoAppendTable(Tables)
    \/ DoDotProduct(Tables)
    \/ DoTruncate(Tables)

SpecData == Init /\ [][NextData]_vars

\* Every call on a single table.
NextOne ==
    \/ DoNew({"t1"}, BsInputs)
    \/ DoAddBindings({"t1"}, BsInputs)
    \/ DoAddRow({"t1"}, RowsOne)
    \/ DoAppendTable({"t1"})
    \/ DoDotProduct({"t1"})
    \/ DoDeleteRow({"t1"})
    \/ DoTruncate({"t1"})
    \/ DoToText({"t1"})
    \/ DoRow({"t1"})

SpecOne == Init /\ [][NextOne]_vars

\* The same call made in two runs of the program: the arguments agree, the
\* order in which range visits a map is each run's own.
TwinNew ==
    \E t \in Tables, bs \in BsData :
        /\ world' = New(world, t, bs).w
        /\ twin' = New(twin, t, bs).w
        /\ last' = Called("New", t, New(world, t, bs).err)
        /\ UNCHANGED notTable

TwinAddBindings ==
    \E t \in Tables, bs \in BsAdd :
        /\ world' = AddBindings(world, t, bs).w
        /\ twin' = AddBindings(twin, t, bs).w
        /\ last' = Called("AddBindings", t, AddBindings(world, t, bs).err)
        /\ UNCHANGED notTable

TwinAddRow ==
    \E t \in Tables, row \in {RowA} :
        /\ NumRows(world, t) < MaxRows
        /\ world' = AddRow(world, t, row).w
        /\ twin' = AddRow(twin, t, row).w
        /\ last' = Called("AddRow", t, AddRow(world, t, row).err)
        /\ UNCHANGED notTable

TwinAppendTable ==
    \E t, t2 \in Tables :
        LET r == AppendTable(world, t, t2)
        IN /\ NumRows(r.w, t) <= MaxRows
           /\ world' = r.w
           /\ twin' = AppendTable(twin, t, t2).w
           /\ last' = Called("AppendTable", t, r.err)
           /\ UNCHANGED notTable

TwinDotProduct ==
    \E t, t2 \in Tables :
        \E o1 \in RangeOrders(world.maps[world.tbl[t].mbs] \cup world.maps[world.tbl[t2].mbs]),
           o2 \in RangeOrders(twin.maps[twin.tbl[t].mbs] \cup twin.maps[twin.tbl[t2].mbs]) :
            LET r == DotProduct(world, t, t2, o1)
            IN /\ NumRows(r.w, t) <= MaxRows
               /\ world' = r.w
               /\ twin' = DotProduct(twin, t, t2, o2).w
               /\ last' = Called("DotProduct", t, r.err)
               /\ UNCHANGED notTable

TwinDeleteRow ==
    \E t \in Tables, i \in -1..MaxRows :
        /\ world' = DeleteRow(world, t, i).w
        /\ twin' = DeleteRow(twin, t, i).w
        /\ last' = Called("DeleteRow", t, DeleteRow(world, t, i).err)
        /\ UNCHANGED notTable

TwinTruncate ==
    \E t \in Tables :
        /\ world' = Truncate(world, t).w
        /\ twin' = Truncate(twin, t).w
        /\ last' = Called("Truncate", t, Truncate(world, t).err)
        /\ UNCHANGED notTable

NextTwin ==
    \/ TwinNew
    \/ TwinAddBindings
    \/ TwinAddRow
    \/ TwinAppendTable
    \/ TwinDotProduct
    \/ TwinDeleteRow
    \/ TwinTruncate

SpecTwin == Init /\ [][NextTwin]_vars

\* ------------------------------------------------------------------ planner
\* Most graphs in the graph list, and most triples in the whole storage.
MaxGraphs == 2
MaxTriples == 2

NodeJohn == [type |-> "/u", id |-> "john"]
NodeMary == [type |-> "/u", id |-> "mary"]
Knows == [id |-> "knows", anchor |-> None]
KnowsAt(t) == [id |-> "knows", anchor |-> Some(t)]
LikesAt(t) == [id |-> "likes", anchor |-> Some(t)]
TextLiteral == [value |-> "x", type |-> "text"]

\* The triples the graphs are filled with.
TripleInputs ==
    {Triple(NodeJohn, Knows, ObjectOfNode(NodeMary)),
     Triple(NodeJohn, KnowsAt(1), ObjectOfNode(NodeJohn)),
     Triple(NodeMary, KnowsAt(3), ObjectOfPredicate(LikesAt(2))),
     Triple(NodeJohn, LikesAt(2), ObjectOfLiteral(TextLiteral)),
     Triple(NodeMary, KnowsAt(2), ObjectOfPredicate(Knows))}

\* c with the fields of part set.
With(c, part) == [f \in DOMAIN c |-> IF f \in DOMAIN part THEN part[f] ELSE c[f]]

\* What the subject, predicate and object hooks leave in a clause for one token
\* (a concrete value, a binding, an id with an anchor binding, an id with bounds).
SBases ==
    {[S |-> Some(NodeJohn)], [SBinding |-> "?s"]}

BoundInputs == {<<Some(1), Some(2)>>, <<None, Some(2)>>, <<Some(2), None>>, <<Some(2), Some(2)>>}

PBases ==
    {[P |-> Some(Knows)],
     [P |-> Some(KnowsAt(1)), PTemporal |-> TRUE],
     [PBinding |-> "?p"],
     [PID |-> "knows", PAnchorBinding |-> "?t", PTemporal |-> TRUE]}
    \cup {[PID |-> "knows", PLowerBound |-> b[1], PUpperBound |-> b[2], PTemporal |-> TRUE] :
             b \in BoundInputs}

OBases ==
    {[O |-> Some(ObjectOfNode(NodeMary))],
     [O |-> Some(ObjectOfNode(NodeJohn))],
     [O |-> Some(ObjectOfPredicate(Knows))],
     [O |-> Some(ObjectOfLiteral(TextLiteral))],
     [OBinding |-> "?o"],
     [OID |-> "knows", OAnchorBinding |-> "?u", OTemporal |-> TRUE],
     [OID |-> "likes", OLowerBound |-> Some(1), OUpperBound |-> Some(2), OTemporal |-> TRUE]}

Shapes == {With(With(With(EmptyClause, s), p), o) : s \in SBases, p \in PBases, o \in OBases}

\* The shapes whose slots are varied two at a time.
SlotShapes ==
    {c \in Shapes :
        \/ c.SBinding # "" /\ c.PBinding # "" /\ c.OBinding # ""
        \/ c.SBinding # "" /\ c.PAnchorBinding # "" /\ c.OBinding # ""
        \/ c.SBinding # "" /\ c.PBinding # "" /\ c.OAnchorBinding # ""
        \/ c.S # None /\ c.P = Some(Knows) /\ c.O = Some(ObjectOfNode(NodeMary))
        \/ c.S # None /\ c.P = Some(KnowsAt(1)) /\ c.O = Some(ObjectOfNode(NodeJohn))}

BindingSlots == {"SBinding", "PBinding", "OBinding", "PAnchorBinding", "OAnchorBinding"}
SlotNames == {RowSlots[i] : i \in 1..Len(RowSlots)}

SlotIndex(f) == CHOOSE i \in 1..Len(RowSlots) : RowSlots[i] = f

\* Clause c with the slots of X named: all "?x" when same, else the first of
\* them "?x" and the others "?y". A binding slot is named only where c has it.
Named(c, X, same) ==
    [f \in DOMAIN c |->
        IF f \notin X THEN c[f]
        ELSE IF same \/ \A g \in X : SlotIndex(f) <= SlotIndex(g) THEN "?x" ELSE "?y"]
Nameable(c, X) == \A f \in X \cap BindingSlots : c[f] # ""

SlotPairs == {X \in SUBSET SlotNames : Cardinality(X) <= 2}

ClauseInputs ==
    {Named(d[1], d[2], d[3]) :
        d \in {e \in SlotShapes \X SlotPairs \X BOOLEAN : Nameable(e[1], e[2])}}
    \cup {Named(c, X, TRUE) : c \in Shapes, X \in {{}, {"PAnchorAlias"}, {"OIDAlias"}}}

\* The clauses fetched with a failing storage call.
FailingInputs == Shapes

\* Storage.NewGraph: one more graph in the graph list.
NewGraph ==
    /\ ~plan.called
    /\ Len(store) < MaxGraphs
    /\ store' = Append(store, <<>>)
    /\ UNCHANGED <<plan, notPlanner>>

RECURSIVE SumLen(_)
SumLen(gs) == IF gs = <<>> THEN 0 ELSE Len(Head(gs)) + SumLen(Tail(gs))

\* Graph.AddTriples with one triple the graph does not hold.
AddTriple ==
    \E i \in 1..Len(store), t \in TripleInputs :
        /\ ~plan.called
        /\ SumLen(store) < MaxTriples
        /\ ~Exist(store[i], t)
        /\ store' = [store EXCEPT ![i] = Append(@, t)]
        /\ UNCHANGED <<plan, notPlanner>>

\* The lookup options simpleFetch is called with.
FetchLookups ==
    {DefaultLookup, LookupOptions(1, None, None), LookupOptions(2, Some(2), None),
     LookupOptions(0, Some(1), Some(2))}

\* One call of simpleFetch on the graph list; plan.lo is the value of the
\* caller's lookup options before the call.
\* The calls of simpleFetch: every clause with the default options and no
\* failing storage call, and the clauses of FailingInputs with a failing call
\* or with other options.
FetchInputs ==
    {[cls |-> c, failAt |-> 0, lo |-> DefaultLookup] : c \in ClauseInputs}
    \cup {[cls |-> c, failAt |-> f, lo |-> DefaultLookup] :
              c \in FailingInputs, f \in 1..MaxGraphs}
    \cup {[cls |-> c, failAt |-> 0, lo |-> lo] : c \in FailingInputs, lo \in FetchLookups}

DoSimpleFetch ==
    \E in \in FetchInputs :
        /\ ~plan.called
        /\ in.failAt <= Len(store)
        /\ plan' = [called |-> TRUE, cls |-> in.cls, failAt |-> in.failAt, lo |-> in.lo,
                    res |-> simpleFetch(store, in.cls, in.lo, in.failAt)]
        /\ UNCHANGED <<store, notPlanner>>

NextPlan ==
    \/ NewGraph
    \/ AddTriple
    \/ DoSimpleFetch

SpecPlan == Init /\ [][NextPlan]_vars

\* ------------------------------------------------------ the predicate package
\* The ids and the texts the calls are made with: every text of up to MaxText
\* characters, and every pretty printed predicate with one character taken
\* out, put in or exchanged.
MaxId == 2
MaxText == 3

IdChars == {"a", Quote, Backslash}
TextChars == {"a", Quote, Backslash, "@", "[", "]", Space, "T", "1"}

IdInputs == UNION {[1..n -> IdChars] : n \in 0..MaxId}

PrettyInputs ==
    {String([id |-> id, anchor |-> None]) : id \in IdInputs \ {<<>>}}
    \cup {String([id |-> id, anchor |-> Some(t)]) : id \in IdInputs \ {<<>>}, t \in TimeInputs}

Without(s, i) == SubSeq(s, 1, i - 1) \o SubSeq(s, i + 1, Len(s))
Insert(s, i, c) == SubSeq(s, 1, i) \o <<c>> \o SubSeq(s, i + 1, Len(s))

TextInputs ==
    UNION {[1..n -> TextChars] : n \in 0..MaxText}
    \cup PrettyInputs
    \cup UNION {{Without(s, i) : i \in 1..Len(s)} : s \in PrettyInputs}
    \cup UNION {{Insert(s, i, c) : i \in 0..Len(s), c \in TextChars} : s \in PrettyInputs}
    \cup UNION {{[s EXCEPT ![i] = c] : i \in 1..Len(s), c \in TextChars} : s \in PrettyInputs}

\* One call is made, and then its result may be printed and parsed back.
NotCalled == pred.op = "init"

DoNewImmutable ==
    \E id \in IdInputs :
        /\ NotCalled
        /\ pred' = [op |-> "NewImmutable", text |-> id, src |-> None,
                    res |-> NewImmutable(id)]
        /\ UNCHANGED notPredicate

DoNewTemporal ==
    \E id \in IdInputs, t \in TimeInputs :
        /\ NotCalled
        /\ pred' = [op |-> "NewTemporal", text |-> id, src |-> None,
                    res |-> NewTemporal(id, t)]
        /\ UNCHANGED notPredicate

DoParse ==
    \E s \in TextInputs :
        /\ NotCalled
        /\ pred' = [op |-> "Parse", text |-> s, src |-> None, res |-> Parse(s)]
        /\ UNCHANGED notPredicate

\* Parse(p.String()) for the predicate p the last call returned.
DoParseString ==
    /\ pred.res.kind = "predicate"
    /\ pred.op # "ParseString"
    /\ pred' = [op |-> "ParseString", text |-> String(pred.res.p[1]),
                src |-> pred.res.p, res |-> Parse(String(pred.res.p[1]))]
    /\ UNCHANGED notPredicate

NextPred ==
    \/ DoNewImmutable
    \/ DoNewTemporal
    \/ DoParse
    \/ DoParseString

SpecPred == Init /\ [][NextPred]_vars

\* ------------------------------------------------------------ the where block
\* The parser's walk over the clause list of a where block, with the clause
\* hooks of SemanticBQL attached. stmt holds the state of the working clause,
\* the working clause itself, the clauses closed so far, the token consumed
\* last with the state it was met in, and how the parse stands. The as, type,
\* id and at refinements leave the state where it is and are not modelled.
\* A where block holds up to MaxClauses clauses.
MaxClauses == 2

\* One end of a PredicateBound token: empty, a timestamp, or a binding.
NoEnd == [time |-> None, alias |-> ""]
EndAt(t) == [time |-> Some(t), alias |-> ""]
EndAs(a) == [time |-> None, alias |-> a]
BoundEnds(lower) == {NoEnd, EndAt(1), EndAt(2), EndAs(IF lower THEN "?lo" ELSE "?hi")}

BoundToken(id, lo, hi) == [kind |-> "PredicateBound", id |-> id, lo |-> lo, hi |-> hi]
BoundTokens == {BoundToken("foo", lo, hi) : lo \in BoundEnds(TRUE), hi \in BoundEnds(FALSE)}

SubjectTokens == {[kind |-> "Binding", name |-> "?s"], [kind |-> "Node", node |-> NodeJohn]}
PredicateTokens ==
    {[kind |-> "Binding", name |-> "?p"], [kind |-> "Predicate", pred |-> Knows]}
    \cup BoundTokens
ObjectTokens ==
    {[kind |-> "Binding", name |-> "?o"], [kind |-> "Node", node |-> NodeMary],
     [kind |-> "Predicate", pred |-> KnowsAt(1)],
     [kind |-> "Literal", lit |-> TextLiteral]}
    \cup {BoundToken("foo", EndAt(lo), EndAt(hi)) : lo, hi \in {1, 2}}
    \cup {BoundToken("foo", EndAs("?lo"), EndAs("?hi"))}

\* The test of the hooks that also rejects a bound with equal ends.
InvertedBound_RejectsEqual(tok) ==
    /\ tok.lo.time # None /\ tok.hi.time # None
    /\ tok.lo.time[1] >= tok.hi.time[1]

\* Whether the hooks reject a PredicateBound token.
InvertedBound(tok) ==
    /\ tok.lo.time # None /\ tok.hi.time # None
    /\ tok.lo.time[1] > tok.hi.time[1]

\* whereSubjectClause(), wherePredicateClause() and whereObjectClause() on an
\* accepted token: the working clause afterwards.
whereSubjectClause(wc, tok) ==
    IF tok.kind = "Binding" THEN [wc EXCEPT !.SBinding = tok.name]
    ELSE [wc EXCEPT !.S = Some(tok.node)]

wherePredicateClause(wc, tok) ==
    CASE tok.kind = "Binding" -> [wc EXCEPT !.PBinding = tok.name]
      [] tok.kind = "Predicate" ->
            [wc EXCEPT !.P = Some(tok.pred),
                       !.PTemporal = PredicateType(tok.pred) = Temporal]
      [] tok.kind = "PredicateBound" ->
            [wc EXCEPT !.PID = tok.id, !.PTemporal = TRUE,
                       !.PLowerBound = tok.lo.time, !.PUpperBound = tok.hi.time,
                       !.PLowerBoundAlias = tok.lo.alias,
                       !.PUpperBoundAlias = tok.hi.alias]

whereObjectClause(wc, tok) ==
    CASE tok.kind = "Binding" -> [wc EXCEPT !.OBinding = tok.name]
      [] tok.kind = "Node" -> [wc EXCEPT !.O = Some(ObjectOfNode(tok.node))]
      [] tok.kind = "Literal" -> [wc EXCEPT !.O = Some(ObjectOfLiteral(tok.lit))]
      [] tok.kind = "Predicate" ->
            [wc EXCEPT !.O = Some(ObjectOfPredicate(tok.pred)),
                       !.OTemporal = PredicateType(tok.pred) = Temporal]
      [] tok.kind = "PredicateBound" ->
            [wc EXCEPT !.OID = tok.id, !.OTemporal = TRUE,
                       !.OLowerBound = tok.lo.time, !.OUpperBound = tok.hi.time,
                       !.OLowerBoundAlias = tok.lo.alias,
                       !.OUpperBoundAlias = tok.hi.alias]

\* The token kinds the grammar expects in each state of the working clause.
Expected(state) ==
    CASE state = Empty -> {"Binding", "Node"}
      [] state = SubjectSeen -> {"Binding", "Predicate", "PredicateBound"}
      [] state = PredicateSeen ->
            {"Binding", "Node", "Predicate", "PredicateBound", "Literal"}
      [] state = ObjectSeen -> {".", "}"}

\* The driver that takes a '}' right after a '.' for the end of the block.
Consume_ClosesAfterDot(st, tok) ==
    LET met == [st EXCEPT !.tok = tok, !.from = st.state]
    IN IF tok.kind = "}" /\ st.state = Empty /\ st.clauses # <<>>
       THEN [met EXCEPT !.status = Accepted]
       ELSE IF tok.kind \notin Expected(st.state)
       THEN [met EXCEPT !.status = ParseError]
       ELSE IF tok.kind = "PredicateBound" /\ InvertedBound(tok)
       THEN [met EXCEPT !.status = SemanticError]
       ELSE CASE st.state = Empty ->
                    [met EXCEPT !.state = SubjectSeen,
                                !.wc = whereSubjectClause(st.wc, tok)]
              [] st.state = SubjectSeen ->
                    [met EXCEPT !.state = PredicateSeen,
                                !.wc = wherePredicateClause(st.wc, tok)]
              [] st.state = PredicateSeen ->
                    [met EXCEPT !.state = ObjectSeen,
                                !.wc = whereObjectClause(st.wc, tok)]
              [] st.state = ObjectSeen /\ tok.kind = "." ->
                    [met EXCEPT !.state = Empty, !.wc = EmptyClause,
                                !.clauses = Append(@, st.wc)]
              [] st.state = ObjectSeen /\ tok.kind = "}" ->
                    [met EXCEPT !.status = Accepted,
                                !.clauses = Append(@, st.wc)]

\* The driver consumes token tok.
Consume(st, tok) ==
    LET met == [st EXCEPT !.tok = tok, !.from = st.state]
    IN IF tok.kind \notin Expected(st.state)
       THEN [met EXCEPT !.status = ParseError]
       ELSE IF tok.kind = "PredicateBound" /\ InvertedBound(tok)
       THEN [met EXCEPT !.status = SemanticError]
       ELSE CASE st.state = Empty ->
                    [met EXCEPT !.state = SubjectSeen,
                                !.wc = whereSubjectClause(st.wc, tok)]
              [] st.state = SubjectSeen ->
                    [met EXCEPT !.state = PredicateSeen,
                                !.wc = wherePredicateClause(st.wc, tok)]
              [] st.state = PredicateSeen ->
                    [met EXCEPT !.state = ObjectSeen,
                                !.wc = whereObjectClause(st.wc, tok)]
              [] st.state = ObjectSeen /\ tok.kind = "." ->
                    [met EXCEPT !.state = Empty, !.wc = EmptyClause,
                                !.clauses = Append(@, st.wc)]
              [] st.state = ObjectSeen /\ tok.kind = "}" ->
                    [met EXCEPT !.status = Accepted,
                                !.clauses = Append(@, st.wc)]

ReadSubject ==
    \E tok \in SubjectTokens :
        /\ stmt.status = Parsing
        /\ Len(stmt.clauses) < MaxClauses
        /\ stmt.state \in {Empty, ObjectSeen}
        /\ stmt' = Consume(stmt, tok)
        /\ UNCHANGED notWhere

ReadPredicate ==
    \E tok \in PredicateTokens :
        /\ stmt.status = Parsing
        /\ Len(stmt.clauses) < MaxClauses
        /\ stmt.state \in {Empty, SubjectSeen}
        /\ stmt' = Consume(stmt, tok)
        /\ UNCHANGED notWhere

ReadObject ==
    \E tok \in ObjectTokens :
        /\ stmt.status = Parsing
        /\ Len(stmt.clauses) < MaxClauses
        /\ stmt.state \in {SubjectSeen, PredicateSeen}
        /\ stmt' = Consume(stmt, tok)
        /\ UNCHANGED notWhere

ReadDot ==
    /\ stmt.status = Parsing
    /\ Len(stmt.clauses) < MaxClauses - 1
    /\ stmt' = Consume(stmt, Dot)
    /\ UNCHANGED notWhere

ReadRightBrace ==
    /\ stmt.status = Parsing
    /\ stmt' = Consume(stmt, RightBrace)
    /\ UNCHANGED notWhere

NextWhere ==
    \/ ReadSubject
    \/ ReadPredicate
    \/ ReadObject
    \/ ReadDot
    \/ ReadRightBrace

SpecWhere == Init /\ [][NextWhere]_vars

\* ---------------------------------------------------------- the lookup checker
\* A checker is built from lookup options and then asked about predicates, up
\* to MaxCalls times.
MaxCalls == 3

LookupInputs ==
    {LookupOptions(m, l, u) : m \in 0..2, l \in {None, Some(1), Some(2)},
                              u \in {None, Some(2), Some(3)}}

CheckedPredicates == {Knows} \cup {KnowsAt(t) : t \in 1..3}

BuildChecker ==
    \E lo \in LookupInputs :
        /\ ~chk.built
        /\ chk' = [built |-> TRUE, ck |-> newChecker(lo), asked |-> <<>>,
                   answers |-> <<>>]
        /\ UNCHANGED notChecker

DoCheckAndUpdate ==
    \E p \in CheckedPredicates :
        /\ chk.built
        /\ Len(chk.asked) < MaxCalls
        /\ chk' = [chk EXCEPT !.ck = CheckAndUpdate(chk.ck, p).ck,
                              !.asked = Append(@, p),
                              !.answers = Append(@, CheckAndUpdate(chk.ck, p).ok)]
        /\ UNCHANGED notChecker

NextChecker ==
    \/ BuildChecker
    \/ DoCheckAndUpdate

SpecChecker == Init /\ [][NextChecker]_vars

\* ------------------------------------------------- the per-row time bounds
\* updateTimeBoundsForRow is called with the clauses the predicate hook builds
\* from a bound token and with rows of a prior clause that hold, under each
\* alias, a time cell, a cell without a time, or nothing.
BoundClauses ==
    {wherePredicateClause(EmptyClause, tok) : tok \in {b \in BoundTokens : ~InvertedBound(b)}}

AliasCells == {CellT(1), CellT(2), CellT(3), CellS("x")}

BoundRows ==
    {<<>>}
    \cup {[a \in {"?lo"} |-> c] : c \in AliasCells}
    \cup {[a \in {"?hi"} |-> c] : c \in AliasCells}
    \cup {[a \in {"?lo", "?hi"} |-> IF a = "?lo" THEN c[1] ELSE c[2]] :
              c \in AliasCells \X AliasCells}

DoUpdateTimeBoundsForRow ==
    \E cls \in BoundClauses, lo \in FetchLookups, r \in BoundRows :
        /\ ~plan.called
        /\ plan' = [called |-> TRUE, cls |-> cls, lo |-> lo, row |-> r,
                    res |-> updateTimeBoundsForRow(lo, cls, r)]
        /\ UNCHANGED <<store, notPlanner>>

SpecRowBounds == Init /\ [][DoUpdateTimeBoundsForRow]_vars

\* ================================================================== claims
\* The names t has according to HasBinding.
BindingSet(w, t) == {b \in Names : HasBinding(w, t, b)}

NoDuplicates(s) == \A i, j \in 1..Len(s) : i # j => s[i] # s[j]

\* C1: in every reachable state every table's Bindings() holds no name twice,
\* and HasBinding(b) is true exactly for the names b that occur in Bindings().
C1_BindingsUniqueAndPresent ==
    \A t \in Tables :
        /\ NoDuplicates(Bindings(world, t))
        /\ \A b \in Names : HasBinding(world, t, b) <=> b \in Range(Bindings(world, t))

\* C2: New(bs) returns an error exactly when bs holds a name twice; otherwise
\* the new table has no rows, Bindings() = bs in the same order, and HasBinding
\* is true exactly on the names of bs.
C2_NewContract ==
    \A t \in Tables, bs \in BsInputs :
        LET r == New(world, t, bs)
        IN /\ r.err <=> (\E i, j \in 1..Len(bs) : i # j /\ bs[i] = bs[j])
           /\ ~r.err =>
                 /\ NumRows(r.w, t) = 0
                 /\ Bindings(r.w, t) = bs
                 /\ \A b \in Names : HasBinding(r.w, t, b) <=> (\E i \in 1..Len(bs) : bs[i] = b)

\* New has just built a table with MaxBs bindings while it refuses other lists.
C2_Witness ==
    /\ last.op = "New" /\ ~last.err
    /\ Len(Bindings(world, last.t)) = MaxBs
    /\ NumRows(world, last.t) = 0
    /\ \E bs \in BsInputs : New(world, last.t, bs).err

\* The names of bs that pass keep, each once, in the order of their first occurrence.
RECURSIVE FirstOccurrences(_, _)
FirstOccurrences(bs, seen) ==
    IF bs = <<>> THEN <<>>
    ELSE IF Head(bs) \in seen THEN FirstOccurrences(Tail(bs), seen)
    ELSE <<Head(bs)>> \o FirstOccurrences(Tail(bs), seen \cup {Head(bs)})

C3_AppendTableSucceedsIff ==
    \A t, t2 \in Tables :
        LET r == AppendTable(world, t, t2)
        IN /\ ~r.err <=> \/ Len(Bindings(world, t)) = 0
                         \/ BindingSet(world, t) = BindingSet(world, t2)
           /\ r.err => r.w = world

\* AppendTable has just failed: both tables hold rows and bindings, and their
\* binding sets differ.
C3_Witness ==
    /\ last.op = "AppendTable" /\ last.err
    /\ \A t \in Tables : NumRows(world, t) > 0 /\ Len(Bindings(world, t)) > 0
    /\ BindingSet(world, "t1") # BindingSet(world, "t2")
    /\ AppendTable(world, last.t, CHOOSE u \in Tables : u # last.t).err

\* C4: when t.AppendTable(t2) succeeds, the rows of t are its former rows
\* followed by the rows of t2, and a t that had no bindings has the bindings of
\* t2; appended to an empty table, t2 yields a table with its bindings and rows.
C4_AppendTableResult ==
    \A t, t2 \in Tables :
        LET r == AppendTable(world, t, t2)
        IN ~r.err =>
              /\ Rows(r.w, t) = Rows(world, t) \o Rows(world, t2)
              /\ Len(Bindings(world, t)) = 0 =>
                    /\ Bindings(r.w, t) = Bindings(world, t2)
                    /\ BindingSet(r.w, t) = BindingSet(world, t2)
              /\ (Len(Bindings(world, t)) = 0 /\ NumRows(world, t) = 0) =>
                    /\ Bindings(r.w, t) = Bindings(r.w, t2)
                    /\ Rows(r.w, t) = Rows(r.w, t2)

\* AppendTable has just put the rows of another table behind the receiver's.
C4_Witness ==
    /\ last.op = "AppendTable" /\ ~last.err
    /\ NumRows(world, last.t) = MaxRows
    /\ Rows(world, last.t)[1] # Rows(world, last.t)[MaxRows]
    /\ \E t2 \in Tables \ {last.t} :
          /\ NumRows(world, t2) = 1
          /\ Rows(world, t2)[1] = Rows(world, last.t)[MaxRows]
          /\ Len(Bindings(world, t2)) > 0

\* C5: t.DotProduct(t2) succeeds exactly when the two tables have no binding
\* in common; when it fails nothing changes.
C5_DotProductSucceedsIff ==
    \A t, t2 \in Tables :
        \A order \in RangeOrders(BindingSet(world, t) \cup BindingSet(world, t2)) :
            LET r == DotProduct(world, t, t2, order)
            IN /\ ~r.err <=> BindingSet(world, t) \cap BindingSet(world, t2) = {}
               /\ r.err => r.w = world

\* DotProduct has just failed on two tables that hold bindings and rows.
C5_Witness ==
    /\ last.op = "DotProduct" /\ last.err
    /\ \A t \in Tables : NumRows(world, t) > 0 /\ Len(Bindings(world, t)) > 0
    /\ Bindings(world, "t1") # Bindings(world, "t2")

\* What the claim says of the result r of t.DotProduct(t2) on world w.
DotProductResult(w, t, t2, r) ==
    LET m == NumRows(w, t)
        n == NumRows(w, t2)
    IN /\ NumRows(r.w, t) = m * n
       /\ \A i \in 0..(m - 1), j \in 0..(n - 1) :
             LET row == Rows(r.w, t)[i * n + j + 1]
                 r1  == Rows(w, t)[i + 1]
                 r2  == Rows(w, t2)[j + 1]
             IN /\ DOMAIN row = DOMAIN r1 \cup DOMAIN r2
                /\ \A k \in DOMAIN row :
                      \/ k \in DOMAIN r1 /\ row[k] = r1[k]
                      \/ k \in DOMAIN r2 /\ row[k] = r2[k]
       /\ BindingSet(r.w, t) = BindingSet(w, t) \cup BindingSet(w, t2)
       /\ Bindings(r.w, t2) = Bindings(w, t2)
       /\ BindingSet(r.w, t2) = BindingSet(w, t2)
       /\ Rows(r.w, t2) = Rows(w, t2)

\* C6: when t.DotProduct(t2) succeeds with m rows in t and n rows in t2, t
\* holds m*n rows afterwards, row i*n+j is the key-wise union of row i of t and
\* row j of t2, the binding set of t is the union of both, and t2 is as before.
C6_DotProductResult ==
    \A t, t2 \in Tables :
        \A order \in RangeOrders(BindingSet(world, t) \cup BindingSet(world, t2)) :
            LET r == DotProduct(world, t, t2, order)
            IN ~r.err => DotProductResult(world, t, t2, r)

\* C6 for two different tables.
C6_DotProductOfDistinctTables ==
    \A t, t2 \in Tables :
        \A order \in RangeOrders(BindingSet(world, t) \cup BindingSet(world, t2)) :
            LET r == DotProduct(world, t, t2, order)
            IN (t # t2 /\ ~r.err) => DotProductResult(world, t, t2, r)

\* DotProduct has acted, and two tables with disjoint bindings hold MaxRows
\* rows each, whose product holds MaxRows * MaxRows rows.
C6_Witness ==
    /\ last.op = "DotProduct" /\ ~last.err
    /\ Len(Bindings(world, last.t)) = 2
    /\ NumRows(world, last.t) = MaxRows
    /\ \E t, t2 \in Tables :
          /\ t # t2
          /\ NumRows(world, t) = MaxRows /\ NumRows(world, t2) = MaxRows
          /\ Rows(world, t)[1] # Rows(world, t)[2]
          /\ BindingSet(world, t) # {}
          /\ \E order \in RangeOrders(BindingSet(world, t) \cup BindingSet(world, t2)) :
                LET r == DotProduct(world, t, t2, order)
                IN ~r.err /\ NumRows(r.w, t) = MaxRows * MaxRows

C9_RunsAgree ==
    \A t \in Tables :
        /\ Bindings(world, t) = Bindings(twin, t)
        /\ \A sep \in SepInputs : ToText(world, t, sep) = ToText(twin, t, sep)

\* items joined by sep, as text.
RECURSIVE Joined(_, _)
Joined(items, sep) ==
    IF items = <<>> THEN <<>>
    ELSE IF Len(items) = 1 THEN items[1]
    ELSE items[1] \o Tok(sep) \o Joined(Tail(items), sep)

\* The text the claim describes for table t of w and separator sep.
RenderedAsClaimed(w, t, sep) ==
    LET bs == Bindings(w, t)
        line(row) == Joined([i \in 1..Len(bs) |->
                                IF bs[i] \in DOMAIN row THEN CellString(row[bs[i]])
                                ELSE <<"<NULL>">>], sep)
        RECURSIVE lines(_)
        lines(d) == IF d = <<>> THEN <<>>
                    ELSE line(Head(d)) \o <<"\n">> \o lines(Tail(d))
    IN Joined([i \in 1..Len(bs) |-> <<bs[i]>>], sep) \o <<"\n">> \o lines(Rows(w, t))

NumLines(text) == Cardinality({i \in 1..Len(text) : text[i] = "\n"})

\* C10: for every separator, the empty one included, ToText(sep) is the binding
\* names joined by sep and a newline, then per row one line of its cells in
\* binding order joined by the same separator, <NULL> where the row has no
\* cell: 1 + NumRows() lines.
C10_ToTextRendering ==
    \A t \in Tables, sep \in SepInputs :
        /\ ToText(world, t, sep) = RenderedAsClaimed(world, t, sep)
        /\ NumLines(ToText(world, t, sep)) = 1 + NumRows(world, t)

\* The table simpleFetch returned, and the number of its rows.
FetchedRows == Rows(plan.res.tbl[1], "t1")

\* simpleFetch was called on one graph for a clause with concrete S, P and O,
\* and no storage call failed.
ConcreteFetch ==
    /\ plan.called /\ plan.failAt = 0 /\ Len(store) = 1
    /\ plan.cls.S # None /\ plan.cls.P # None /\ plan.cls.O # None

ClauseTriple == Triple(plan.cls.S[1], plan.cls.P[1], plan.cls.O[1])

\* The named slots of the clause carry pairwise different names.
DistinctSlotNames(cls) ==
    \A f, g \in SlotNames : (f # g /\ cls[f] # "") => cls[f] # cls[g]

\* Every alias of a clause with concrete S, P and O can be computed from them.
AliasesComputable(cls) ==
    /\ cls.PAnchorAlias # "" => cls.P[1].anchor # None
    /\ cls.OTypeAlias # "" => cls.O[1].N # None
    /\ cls.OIDAlias # "" => cls.O[1].L = None
    /\ cls.OAnchorAlias # "" => (cls.O[1].P # None /\ cls.O[1].P[1].anchor # None)

\* C11 as stated: for every clause with concrete S, P and O, simpleFetch on a
\* graph G returns a table with exactly one row when G contains (S,P,O) and a
\* table with no rows when it does not.
C11_ConcreteClauseOneRow ==
    ConcreteFetch =>
        /\ plan.res.err = NoError
        /\ plan.res.tbl # None
        /\ Len(FetchedRows) = IF Exist(store[1], ClauseTriple) THEN 1 ELSE 0

\* C11 amended: the same for the clauses whose aliases name pairwise different
\* variables and can all be computed from (S,P,O).
C11_ConcreteClauseOneRowAliasesApart ==
    (/\ ConcreteFetch
     /\ DistinctSlotNames(plan.cls)
     /\ AliasesComputable(plan.cls)) =>
        /\ plan.res.err = NoError
        /\ plan.res.tbl # None
        /\ Len(FetchedRows) = IF Exist(store[1], ClauseTriple) THEN 1 ELSE 0

\* A clause with two aliases of different names was fetched from a graph that
\* holds its triple and another one.
C11_Witness ==
    /\ ConcreteFetch
    /\ DistinctSlotNames(plan.cls) /\ AliasesComputable(plan.cls)
    /\ Cardinality({f \in SlotNames : plan.cls[f] # ""}) = 2
    /\ Len(store[1]) = 2
    /\ Exist(store[1], ClauseTriple)
    /\ Len(FetchedRows) = 1

\* The triples simpleFetch handed to addTriples, graph after graph.
RECURSIVE FetchedFrom(_, _, _)
FetchedFrom(gs, cls, lo) ==
    IF gs = <<>> THEN <<>>
    ELSE FetchedTriples(Head(gs), cls, lo) \o FetchedFrom(Tail(gs), cls, lo)

AllFetched == FetchedFrom(store, plan.cls, updateTimeBounds(plan.lo, plan.cls).nlo)

\* Every named slot of the clause yields a cell for triple t.
SlotsYield(cls, t) == \A f \in SlotNames : cls[f] # "" => ~SlotValue(f, t).err

\* Two slots of the clause name the same variable and yield unequal cells for t.
SlotsConflict(cls, t) ==
    \E f, g \in SlotNames :
        /\ f # g /\ cls[f] # "" /\ cls[f] = cls[g]
        /\ ~SlotValue(f, t).err /\ ~SlotValue(g, t).err
        /\ SlotValue(f, t).cell # SlotValue(g, t).cell

\* C12: a triple for which two slots name the same variable and yield unequal
\* cells gives no row and no error, so every emitted row agrees with every slot
\* that names one of its variables.
C12_ConflictingRowsDropped ==
    (plan.called /\ plan.failAt = 0
       /\ \A i \in 1..Len(AllFetched) : SlotsYield(plan.cls, AllFetched[i])) =>
        /\ plan.res.err = NoError
        /\ \A k \in 1..Len(plan.res.src) :
              /\ ~SlotsConflict(plan.cls, plan.res.src[k])
              /\ \A f \in SlotNames :
                    plan.cls[f] # "" =>
                        FetchedRows[k][plan.cls[f]] = SlotValue(f, plan.res.src[k]).cell

\* C13: for a clause with predicate time bounds, every row of the table
\* simpleFetch returns comes from a triple whose predicate, when temporal, has
\* its anchor within the bounds, both ends included.
C13_RowsWithinPredicateBounds ==
    (plan.called /\ plan.res.err = NoError
       /\ (plan.cls.PLowerBound # None \/ plan.cls.PUpperBound # None)) =>
        \A k \in 1..Len(plan.res.src) :
            LET p == plan.res.src[k].p IN
            PredicateType(p) = Temporal =>
                /\ plan.cls.PLowerBound # None => plan.cls.PLowerBound[1] <= p.anchor[1]
                /\ plan.cls.PUpperBound # None => p.anchor[1] <= plan.cls.PUpperBound[1]

\* A clause bounded on both sides was fetched from triples of which one lies
\* on the upper bound and gives a row, and one lies beyond it and gives none.
C13_Witness ==
    /\ plan.called /\ plan.res.err = NoError
    /\ plan.cls.PLowerBound = Some(1) /\ plan.cls.PUpperBound = Some(2)
    /\ Len(plan.res.src) = 1
    /\ plan.res.src[1].p.anchor = Some(2)
    /\ \E i \in 1..Len(AllFetched) :
          AllFetched[i].p.id = plan.cls.PID /\ AllFetched[i].p.anchor = Some(3)

\* The clause has a predicate anchor binding or a predicate anchor alias.
HasPAnchorSlot(cls) == cls.PAnchorBinding # "" \/ cls.PAnchorAlias # ""

\* The slots tripleToRow visits before the predicate's anchor.
SlotsBeforePAnchor == {f \in SlotNames : SlotIndex(f) < SlotIndex("PAnchorBinding")}

\* Two slots visited before the predicate's anchor name one variable and yield
\* unequal cells for t.
ConflictBeforePAnchor(cls, t) ==
    \E f, g \in SlotsBeforePAnchor :
        /\ f # g /\ cls[f] # "" /\ cls[f] = cls[g]
        /\ SlotValue(f, t).cell # SlotValue(g, t).cell

ImmutableFetched(cls) ==
    {i \in 1..Len(AllFetched) : PredicateType(AllFetched[i].p) = Immutable}

\* C14 as stated: TimeAnchor() fails exactly for the predicates without an
\* anchor, and a clause with a predicate anchor binding or alias makes
\* simpleFetch return an error and no table once a fetched triple's predicate
\* is immutable.
C14_AnchorOfImmutableIsError ==
    (plan.called /\ plan.failAt = 0) =>
        /\ \A i \in 1..Len(AllFetched) :
              TimeAnchor(AllFetched[i].p).err <=> AllFetched[i].p.anchor = None
        /\ (HasPAnchorSlot(plan.cls) /\ ImmutableFetched(plan.cls) # {}) =>
              plan.res.err # NoError /\ plan.res.tbl = None

\* C14 amended: the same, for the fetched triples with an immutable predicate
\* that no conflict between earlier slots has already dropped.
C14_AnchorOfImmutableIsErrorUnlessDropped ==
    (plan.called /\ plan.failAt = 0) =>
        /\ \A i \in 1..Len(AllFetched) :
              TimeAnchor(AllFetched[i].p).err <=> AllFetched[i].p.anchor = None
        /\ (/\ HasPAnchorSlot(plan.cls)
            /\ \E i \in ImmutableFetched(plan.cls) :
                  ~ConflictBeforePAnchor(plan.cls, AllFetched[i])) =>
              plan.res.err = RowError /\ plan.res.tbl = None
        /\ (/\ HasPAnchorSlot(plan.cls)
            /\ ImmutableFetched(plan.cls) # {}
            /\ \A i \in 1..Len(AllFetched) :
                  ConflictBeforePAnchor(plan.cls, AllFetched[i])) =>
              plan.res.err = NoError /\ plan.res.tbl # None /\ Len(plan.res.src) = 0

\* A clause with an anchor binding met a temporal triple, which gave a row
\* to the table, and then an immutable one, which ended the fetch in an error.
C14_Witness ==
    /\ plan.called /\ plan.failAt = 0
    /\ plan.cls.PAnchorBinding # ""
    /\ Len(AllFetched) = 2
    /\ PredicateType(AllFetched[1].p) = Temporal
    /\ PredicateType(AllFetched[2].p) = Immutable
    /\ ~ConflictBeforePAnchor(plan.cls, AllFetched[2])
    /\ plan.res.err = RowError /\ plan.res.tbl = None

\* The storage call on graph plan.failAt was made and returned an error.
StorageCallFailed ==
    /\ plan.called /\ plan.failAt > 0
    /\ Len(plan.res.calls) = plan.failAt

\* C15: when a storage call of simpleFetch returns an error on any graph of
\* the list, simpleFetch returns that error and no table, also when earlier
\* graphs have contributed rows.
C15_StorageErrorPropagates ==
    StorageCallFailed => plan.res.err = StorageError /\ plan.res.tbl = None

\* The call on the second graph failed after the first graph had given rows.
C15_Witness ==
    /\ StorageCallFailed /\ plan.failAt = 2
    /\ plan.res.err = StorageError /\ plan.res.tbl = None
    /\ simpleFetch(SubSeq(store, 1, 1), plan.cls, DefaultLookup, 0).src # <<>>

\* C16: Parse(p.String()) is p for every predicate p that NewImmutable,
\* NewTemporal or Parse returned.
C16_ParseStringRoundTrip ==
    pred.op = "ParseString" =>
        pred.res.kind = "predicate" /\ pred.res.p = pred.src

\* Text raw has the form "id"@[] or "id"@[timestamp], closed by its bracket.
WellFormed(raw) ==
    /\ raw # <<>> /\ raw[1] = Quote /\ raw[Len(raw)] = "]"
    /\ \E k \in 2..Len(raw) - 3 :
          /\ SubSeq(raw, k, k + 2) = <<Quote, "@", "[">>
          /\ \/ k + 3 = Len(raw)
             \/ \E t \in TimeInputs : SubSeq(raw, k + 3, Len(raw) - 1) = TimeFormat(t)

\* C17: Parse ends with a predicate or with an error for every text and never
\* aborts the program, and it returns a predicate only for a trimmed text of
\* the form "id"@[] or "id"@[timestamp] closed by ']'.
C17_ParseTotalAndStrict ==
    pred.op = "Parse" =>
        /\ pred.res.kind \in {"predicate", "error"}
        /\ pred.res.kind = "predicate" => WellFormed(TrimSpace(pred.text))

\* The token consumed last was a PredicateBound with two timestamps, met where
\* the grammar expects a predicate or an object.
ConcreteBoundRead ==
    /\ stmt.tok.kind = "PredicateBound"
    /\ stmt.from \in {SubjectSeen, PredicateSeen}
    /\ stmt.tok.lo.time # None /\ stmt.tok.hi.time # None

\* The two concrete bounds of a clause, where it has them, are in order.
BoundsInOrder(c) ==
    /\ (c.PLowerBound # None /\ c.PUpperBound # None) => c.PLowerBound[1] <= c.PUpperBound[1]
    /\ (c.OLowerBound # None /\ c.OUpperBound # None) => c.OLowerBound[1] <= c.OUpperBound[1]

\* C18: the predicate and object clause hooks reject a PredicateBound token
\* with two timestamps lo and hi exactly when lo > hi; on acceptance the
\* working clause holds lo and hi, so every clause has its bounds in order.
C18_InvertedBoundsRejected ==
    /\ ConcreteBoundRead =>
          /\ stmt.status = SemanticError <=> stmt.tok.lo.time[1] > stmt.tok.hi.time[1]
          /\ stmt.status # SemanticError =>
                IF stmt.from = SubjectSeen
                THEN /\ stmt.wc.PLowerBound = stmt.tok.lo.time
                     /\ stmt.wc.PUpperBound = stmt.tok.hi.time
                ELSE /\ stmt.wc.OLowerBound = stmt.tok.lo.time
                     /\ stmt.wc.OUpperBound = stmt.tok.hi.time
    /\ BoundsInOrder(stmt.wc)
    /\ \A i \in 1..Len(stmt.clauses) : BoundsInOrder(stmt.clauses[i])

\* The object hook has accepted a bound with equal ends in a clause whose
\* predicate carries a bound too, after a first clause was closed.
C18_Witness ==
    /\ ConcreteBoundRead /\ stmt.from = PredicateSeen /\ stmt.status = Parsing
    /\ stmt.wc.OLowerBound = Some(2) /\ stmt.wc.OUpperBound = Some(2)
    /\ stmt.wc.PLowerBound = Some(1) /\ stmt.wc.PUpperBound = Some(2)
    /\ Len(stmt.clauses) = 1

\* C19: the working clause moves Empty, SubjectSeen, PredicateSeen, ObjectSeen
\* and back to Empty only on '.'; '}' is accepted only in ObjectSeen, so an
\* empty where{}, a clause without its object and a '.' that no complete
\* clause follows are parse errors.
C19_WorkingClauseStateMachine ==
    stmt.tok # NoToken =>
        /\ stmt.status = Parsing =>
              \/ stmt.from = Empty /\ stmt.state = SubjectSeen
              \/ stmt.from = SubjectSeen /\ stmt.state = PredicateSeen
              \/ stmt.from = PredicateSeen /\ stmt.state = ObjectSeen
              \/ stmt.from = ObjectSeen /\ stmt.state = Empty /\ stmt.tok = Dot
        /\ stmt.tok = Dot /\ stmt.from # ObjectSeen => stmt.status = ParseError
        /\ stmt.status = Accepted <=> (stmt.tok = RightBrace /\ stmt.from = ObjectSeen)
        /\ stmt.tok = RightBrace /\ stmt.from # ObjectSeen => stmt.status = ParseError

\* A '}' right after the '.' that closed a clause ended in a parse error.
C19_Witness ==
    /\ stmt.tok = RightBrace /\ stmt.from = Empty
    /\ Len(stmt.clauses) = 1
    /\ stmt.status = ParseError

\* The number of calls before call i that returned true.
TrueBefore(i) == Cardinality({j \in 1..(i - 1) : chk.answers[j]})

\* C20: CheckAndUpdate returns true only if the cap, when there is one, is not
\* yet used up and the predicate is immutable or anchored within the window;
\* at most MaxElements calls return true, and with the default options every
\* call returns true.
C20_CheckerCapAndWindow ==
    chk.built =>
        LET o == chk.ck.o IN
        /\ \A i \in 1..Len(chk.answers) :
              chk.answers[i] =>
                  /\ o.MaxElements > 0 => TrueBefore(i) < o.MaxElements
                  /\ \/ chk.asked[i].anchor = None
                     \/ /\ o.LowerAnchor # None => o.LowerAnchor[1] <= chk.asked[i].anchor[1]
                        /\ o.UpperAnchor # None => chk.asked[i].anchor[1] <= o.UpperAnchor[1]
        /\ o.MaxElements > 0 => TrueBefore(Len(chk.answers) + 1) <= o.MaxElements
        /\ o = DefaultLookup => \A i \in 1..Len(chk.answers) : chk.answers[i]

\* A checker with a cap of one and a lower anchor refused a predicate before
\* the anchor, accepted an immutable one, and refused the next for the cap.
C20_Witness ==
    /\ chk.built
    /\ chk.ck.o.MaxElements = 1 /\ chk.ck.o.LowerAnchor = Some(2)
    /\ chk.answers = <<FALSE, TRUE, FALSE>>
    /\ chk.asked[1].anchor = Some(1) /\ chk.asked[2].anchor = None
    /\ chk.asked[3].anchor = Some(2)

\* The storage call the dispatch table names for the clause.
DispatchKind(cls) ==
    LET b == <<cls.S # None, cls.P # None, cls.O # None>>
    IN CASE b = <<TRUE, TRUE, TRUE>> -> "Exist"
         [] b = <<TRUE, TRUE, FALSE>> -> "Objects"
         [] b = <<TRUE, FALSE, TRUE>> -> "PredicatesForSubjectAndObject"
         [] b = <<FALSE, TRUE, TRUE>> -> "Subjects"
         [] b = <<TRUE, FALSE, FALSE>> -> "TriplesForSubject"
         [] b = <<FALSE, TRUE, FALSE>> -> "TriplesForPredicate"
         [] b = <<FALSE, FALSE, TRUE>> -> "TriplesForObject"
         [] b = <<FALSE, FALSE, FALSE>> -> "Triples"

\* C21: simpleFetch takes the branch chosen by which of S, P and O are
\* concrete and makes one storage call of the matching kind per graph, in the
\* order of the list; it never ends with the 'could not recognize request'
\* error.
C21_OneCallPerGraphOfDispatchedKind ==
    plan.called =>
        /\ plan.res.err # Unrecognized
        /\ Len(plan.res.calls) <= Len(store)
        /\ plan.res.err = NoError => Len(plan.res.calls) = Len(store)
        /\ \A i \in 1..Len(plan.res.calls) :
              /\ plan.res.calls[i].graph = i
              /\ plan.res.calls[i].kind = DispatchKind(plan.cls)

\* An SO request over two graphs made its two calls and found a row.
C21_Witness ==
    /\ plan.called /\ plan.res.err = NoError
    /\ Len(store) = 2 /\ Len(plan.res.calls) = 2
    /\ plan.res.calls[2].kind = "PredicatesForSubjectAndObject"
    /\ Len(plan.res.src) = 1

\* The later of two optional instants and the earlier of two, an absent one
\* imposing no bound.
Latest(a, b) ==
    IF a = None THEN b ELSE IF b = None THEN a ELSE IF a[1] >= b[1] THEN a ELSE b
Earliest(a, b) ==
    IF a = None THEN b ELSE IF b = None THEN a ELSE IF a[1] <= b[1] THEN a ELSE b

\* The storage calls of the fetch that take lookup options.
CallsWithOptions == {i \in 1..Len(plan.res.calls) : plan.res.calls[i].lo # None}

\* C22: the options simpleFetch hands to the storage calls carry the latest of
\* the incoming lower anchor and PLowerBound, and the earliest of the incoming
\* upper anchor and PUpperBound.
C22_StorageOptionsFused ==
    plan.called =>
        \A i \in CallsWithOptions :
            /\ plan.res.calls[i].lo[1].LowerAnchor
                  = Latest(plan.lo.LowerAnchor, plan.cls.PLowerBound)
            /\ plan.res.calls[i].lo[1].UpperAnchor
                  = Earliest(plan.lo.UpperAnchor, plan.cls.PUpperBound)

\* C23: the options handed to every storage call have the MaxElements of the
\* options the caller passed.
C23_MaxElementsPushedDown ==
    plan.called =>
        \A i \in CallsWithOptions :
            plan.res.calls[i].lo[1].MaxElements = plan.lo.MaxElements

\* C29: simpleFetch leaves the caller's LookupOptions value as it was.
C29_CallerOptionsUnchanged ==
    plan.called => plan.res.lo = plan.lo

\* C30: Row(i) returns the row at position i and true for 0 <= i < NumRows(),
\* and nil and false for every other i, without aborting and without changing
\* the table.
C30_RowContract ==
    last.op = "Row" =>
        /\ ~last.panic
        /\ world = last.before
        /\ IF 0 <= last.i /\ last.i < NumRows(last.before, last.t)
           THEN last.ok /\ last.row = Some(Rows(last.before, last.t)[last.i + 1])
           ELSE ~last.ok /\ last.row = None

\* The time cell of row r under alias a, where the clause has the alias.
AliasTime(r, a) == IF a # "" /\ a \in DOMAIN r THEN r[a].T ELSE None

\* C24: the options updateTimeBoundsForRow returns carry the latest of the
\* incoming lower anchor, PLowerBound and the row's time under
\* PLowerBoundAlias, and the earliest of the incoming upper anchor,
\* PUpperBound and the row's time under PUpperBoundAlias.
C24_RowOptionsFused ==
    (plan.called /\ plan.res.kind = "options") =>
        /\ plan.res.lo[1].LowerAnchor
              = Latest(Latest(plan.lo.LowerAnchor, plan.cls.PLowerBound),
                       AliasTime(plan.row, plan.cls.PLowerBoundAlias))
        /\ plan.res.lo[1].UpperAnchor
              = Earliest(Earliest(plan.lo.UpperAnchor, plan.cls.PUpperBound),
                         AliasTime(plan.row, plan.cls.PUpperBoundAlias))

\* The row supplies no time for bound alias a of the clause.
NoTimeFor(r, a) == a # "" /\ (a \notin DOMAIN r \/ r[a].T = None)

\* C25: updateTimeBoundsForRow returns an error and no options whenever the
\* row supplies no time for a bound alias of the clause, and it never aborts.
C25_MissingAliasTimeIsError ==
    plan.called =>
        /\ plan.res.kind # "panic"
        /\ (\/ NoTimeFor(plan.row, plan.cls.PLowerBoundAlias)
            \/ NoTimeFor(plan.row, plan.cls.PUpperBoundAlias)) =>
              plan.res.kind = "error" /\ plan.res.lo = None

\* addTriples adds a row for triple t: the row is built and not filtered.
Emits(t, cls) ==
    LET r == tripleToRow(t, cls) IN ~r.err /\ r.row # None /\ ~Filtered(t, cls)

\* The fetched triples that give a row, in the order they were yielded.
EmittingTriples == SelectSeq(AllFetched, LAMBDA t : Emits(t, plan.cls))

\* C26: the rows of the table simpleFetch returns appear graph by graph in
\* the order of the graph list and, within a graph, in the order in which the
\* storage enumerator yielded the triples they come from.
C26_RowsInProducerOrder ==
    (plan.called /\ plan.res.err = NoError) =>
        /\ Len(FetchedRows) = Len(EmittingTriples)
        /\ \A k \in 1..Len(EmittingTriples) :
              FetchedRows[k] = tripleToRow(EmittingTriples[k], plan.cls).row[1]

\* Two graphs of one triple each were fetched, and each triple gave a row
\* unequal to the other's.
C26_Witness ==
    /\ plan.called /\ plan.res.err = NoError
    /\ Len(store) = 2 /\ Len(store[1]) = 1 /\ Len(store[2]) = 1
    /\ Len(FetchedRows) = 2
    /\ FetchedRows[1] # FetchedRows[2]
    /\ plan.res.src = <<store[1][1], store[2][1]>>

\* The storage calls whose channel is handed to addTriples as it is.
StreamingKinds ==
    {"TriplesForSubject", "TriplesForPredicate", "TriplesForObject", "Triples"}

\* C27: on every path of simpleFetch, the error paths included, each channel
\* obtained from a storage enumerator is read until the producer has closed
\* it, so that no triple is left for a producer to send.
C27_StorageChannelsDrained ==
    (plan.called /\ CallKind(plan.cls) \in StreamingKinds) => plan.res.unread = 0

\* C28: with PID set every emitted row comes from a triple whose predicate id
\* is PID, and with OID set every emitted row comes from a triple whose object
\* is a predicate with id OID.
C28_RowsAgreeWithIds ==
    (plan.called /\ plan.res.err = NoError) =>
        \A k \in 1..Len(plan.res.src) :
            LET t == plan.res.src[k] IN
            /\ plan.cls.PID # "" => t.p.id = plan.cls.PID
            /\ plan.cls.OID # "" => t.o.P # None /\ t.o.P[1].id = plan.cls.OID

====
